---- MODULE Spec2Model ----
(***************************************************************************)
(* Model of the Xiaohongshu automation skill:                              *)
(*   scripts/xhs_auto_pipeline.py  (orchestrator, topic selector, quota)   *)
(*   scripts/xhs_publish.py        (publish script and per-day log)        *)
(*   scripts/xhs_generate_content.py, xhs_trending.py, xhs_status.py       *)
(*     (sibling scripts, seen by the orchestrator through run_script)      *)
(*                                                                         *)
(* Text is modelled by TLA+ strings (ASCII stand-ins for the Chinese       *)
(* literals of the source); Len and SubSeq apply to them as to Python str. *)
(***************************************************************************)
EXTENDS Integers, Sequences, FiniteSets, TLC

VARIABLES
    config,         \* config.json as load_config returns it
    published,      \* published/*.jsonl: the lines of today's file and,
                    \*   in date order, the lines of the files of earlier days
    trending,       \* the newest file of trending/*.json, <<>> when none
    package_file,   \* newest generated/<ts>/package.json, <<>> when none
    publishedFor,   \* history: the topics taken from a snapshot whose
                    \*   generated package was published
    pc,             \* position of the pipeline run in main()
    mode,           \* main(): mode
    category,       \* main(): category
    skip_trending,  \* main(): args.skip_trending
    today_count,    \* main(): today_count
    trending_file,  \* main(): trending_file, 1 = the newest file, 0 = None
    status_result,  \* main(): status_result
    trending_result, \* main(): trending_result
    published_topics, \* main(): published_topics
    topic,          \* main(): topic
    selected,       \* main(): whether the Topic Selector yielded the topic
    gen_result,     \* main(): gen_result
    calls,          \* the run_script invocations of this run, in order
    out,            \* the terminal status record main() printed, if any
    exit_code,      \* exit status of the pipeline process
    sel_data,       \* SpecSel: the snapshot given to the Topic Selector
    sel_published,  \* SpecSel: the published set given to it
    sel_result,     \* SpecSel: <<>> before the call, <<r>> after it
    llm_object,     \* SpecParse: the object the reply of the model carries
    llm_shape,      \* SpecParse: how the reply wraps it
    llm_text,       \* SpecParse: the reply, the text given to extract_json
    parse_result,   \* SpecParse: <<>> before the call, <<r>> after it
    repair_result,  \* SpecParse: <<>> before _fix_json is called on the
                    \*   reply, <<text>> after it
    cw_decoded,     \* SpecTrunc: the record extract_json returned
    cw_image_count, \* SpecTrunc: the image count the caller asked for
    cw_result,      \* SpecTrunc: <<>> before the validation, <<record>> after
    gen_pc,         \* SpecGen: where xhs_generate_content.py main() stands
    gw_response,    \* SpecGen: the gateway's answer to the copywriting request
    arg_image_count, \* SpecGen: image_count after the clamp
    preview_only,   \* SpecGen: args.preview_only
    image_env,      \* SpecGen: IMAGE_API_KEY, IMAGE_BASE_URL, IMAGE_MODEL all set
    copywriting,    \* SpecGen: <<>> or <<the record generate_copywriting returned>>
    img_i,          \* SpecGen: generate_images, the index i of the prompt
    attempt,        \* SpecGen: generate_images, the attempt for that prompt
    gen_image_paths, \* SpecGen: generate_images, the list image_paths
    image_call,     \* SpecGen: "none", "running", "returned" or "raised"
    effects,        \* SpecGen: requests sent, images saved and sleeps, in order
    package_json,   \* SpecGen: <<>> or <<the package written to package.json>>
    gen_out,        \* SpecGen: the final line printed and the exit code
    kw_notes,       \* SpecKw: the notes given to analyze_topics
    kw_result,      \* SpecKw: <<>> before the call, <<analysis>> after it
    ex_message,     \* SpecExtract: data["choices"][0]["message"]
    ex_result,      \* SpecExtract: <<>> before the extraction, <<r>> after it
    pub_args,       \* SpecPub: the arguments xhs_publish.py is run with
    pub_result,     \* SpecPub: <<>> before the run, <<what it did>> after it
    log_files,      \* SpecLog: the lines of two files of published/
    log_result      \* SpecLog: <<>> before get_published_topics, <<set>> after

diskVars == <<config, published, trending, package_file, publishedFor>>
runVars  == <<pc, mode, category, skip_trending, today_count, trending_file,
              status_result, trending_result, published_topics,
              topic, selected, gen_result, calls, out, exit_code>>
selVars  == <<sel_data, sel_published, sel_result>>
parseVars == <<llm_object, llm_shape, llm_text, parse_result, repair_result>>
truncVars == <<cw_decoded, cw_image_count, cw_result>>
genVars  == <<gen_pc, gw_response, arg_image_count, preview_only, image_env,
              copywriting, img_i, attempt, gen_image_paths, image_call,
              effects, package_json, gen_out>>
kwVars   == <<kw_notes, kw_result>>
exVars   == <<ex_message, ex_result>>
pubVars  == <<pub_args, pub_result>>
logVars  == <<log_files, log_result>>
moreVars == <<exVars, pubVars, logVars>>
laterVars == <<truncVars, genVars, kwVars, moreVars>>
fnVars   == <<selVars, parseVars, laterVars>>
vars     == <<diskVars, runVars, fnVars>>

-----------------------------------------------------------------------------
(* Bounds of the model *)

MaxLog    == 2      \* log lines the model lets be written, all days together
MaxImages == 1      \* images one generation run may save
MaxKw     == 2      \* length of the keyword lists in selector inputs
MaxNotes  == 2      \* length of the note list in selector inputs
MaxCeiling == 1     \* largest max_daily_posts a configuration holds
MaxDepth  == 2      \* nesting depth of the JSON objects in model replies
MaxOver   == 1      \* how far below and above a limit the field lengths go
MaxPrompts == 2     \* the largest image count a generation run is asked for
MaxLikes  == 2      \* the most likes a scraped note has

(* Program constants *)

TitleCut        == 20     \* title[:20]
MinWordLen      == 2      \* len(word) >= 2
MaxTitleLen     == 50     \* len(args.title) > 50
MaxContentLen   == 1000   \* len(args.content) > 1000
MaxNoteImages   == 9      \* len(image_paths) > 9
MaxTopics       == 10     \* len(topics) > 10
max_retries     == 2      \* generate_images: max_retries = 2

CatchAll     == "general"     \* "综合"
GenericTopic == "life"        \* "生活分享"

-----------------------------------------------------------------------------
(* Text helpers *)

Prefix(s, n) == IF Len(s) <= n THEN s ELSE SubSeq(s, 1, n)     \* s[:n]

LongTitle == "abcdefghijklmnopqrstuv"        \* a 22-character note title
CutTitle  == "abcdefghijklmnopqrst"          \* its first 20 characters

RECURSIVE SeqRange(_)
SeqRange(s) == IF s = <<>> THEN {} ELSE {Head(s)} \cup SeqRange(Tail(s))

-----------------------------------------------------------------------------
(* xhs_auto_pipeline.py: the persisted state and its readers *)

(* load_config: the configuration record.  Only the fields main() branches  *)
(* on are kept; style, image_count and cron are passed through unread.      *)
load_config == config

(* save_config(config): rewrite config.json with the given record *)
save_config(c) == config' = c

(* One line of published/<day>.jsonl, as xhs_publish.py writes it.  The     *)
(* line also holds a timestamp, the url, a content preview and the image    *)
(* count, which no reader of the log looks at; they are left out.           *)
LogEntry(title, nImages, topics, success) ==
    [title |-> title, topics |-> topics, success |-> success]

(* get_published_topics: every truthy title of every line of every file *)
RECURSIVE FileTitles(_)
FileTitles(lines) ==
    IF lines = <<>> THEN {}
    ELSE (IF Head(lines).title # "" THEN {Head(lines).title} ELSE {})
         \cup FileTitles(Tail(lines))

(* the reader looking at the file of the current day only *)
get_published_topics_today == FileTitles(published.today)

get_published_topics == FileTitles(published.earlier) \cup FileTitles(published.today)

(* count_today_posts: the non-blank lines of today's file *)
count_today_posts == Len(published.today)

(* the lookup with a pattern that matches no saved file *)
find_latest_trending_none == Len(SelectSeq(trending, LAMBDA f : FALSE))

(* find_latest_trending: newest file of trending/, 0 when there is none *)
find_latest_trending == IF trending = <<>> THEN 0 ELSE 1

(* select_topic_from_trending, the keyword loops (tiers 1 and 3) *)
RECURSIVE FirstKeyword(_, _)
FirstKeyword(kws, pub) ==
    IF kws = <<>> THEN <<>>
    ELSE LET word == Head(kws)
         IN  IF word # "" /\ word \notin pub /\ Len(word) >= MinWordLen
             THEN <<word>>
             ELSE FirstKeyword(Tail(kws), pub)

(* select_topic_from_trending, the note loop (tier 2) *)
RECURSIVE FirstNoteTitle(_, _)
FirstNoteTitle(notes, pub) ==
    IF notes = <<>> THEN <<>>
    ELSE LET title == Head(notes)
         IN  IF title # "" /\ title \notin pub
             THEN <<Prefix(title, TitleCut)>>
             ELSE FirstNoteTitle(Tail(notes), pub)

(* the selector with the note tier tried after both keyword tiers *)
select_topic_notes_last(data, pub) ==
    LET w == FirstKeyword(data.weighted, pub)
        n == FirstNoteTitle(data.notes, pub)
        k == FirstKeyword(data.keywords, pub)
    IN  IF w # <<>> THEN w
        ELSE IF k # <<>> THEN k
        ELSE n

(* select_topic_from_trending: <<>> is None, <<t>> is the topic t.          *)
(* data.weighted is analysis.top_weighted_keywords (words, ranked order),   *)
(* data.notes the note titles in file order, data.keywords top_keywords.    *)
select_topic_from_trending(data, pub) ==
    LET w == FirstKeyword(data.weighted, pub)
        n == FirstNoteTitle(data.notes, pub)
        k == FirstKeyword(data.keywords, pub)
    IN  IF w # <<>> THEN w
        ELSE IF n # <<>> THEN n
        ELSE k

-----------------------------------------------------------------------------
(* xhs_publish.py *)

(* Image files: a path names an existing file of a supported format unless  *)
(* it is one of these two.                                                   *)
MissingImage     == "missing.png"
UnsupportedImage == "notes.txt"

(* the files and their number left unexamined *)
validate_images_nonempty(image_paths) == image_paths # <<>>

(* validate_images *)
validate_images(image_paths) ==
    /\ image_paths # <<>>
    /\ Len(image_paths) <= MaxNoteImages
    /\ \A i \in 1..Len(image_paths) :
          image_paths[i] \notin {MissingImage, UnsupportedImage}

(* What client.publish_note does: it returns a result with success set,     *)
(* returns one with success unset, or raises.                               *)
PublishOutcomes == {"success", "rejected", "raise"}

(* main() of xhs_publish.py.  a: the arguments (title, content, images,     *)
(* topics, dry_run); cookies: validate_cookies; res: the publish outcome.   *)
(* Yields the printed status, the exit code, whether the publish call was   *)
(* made and the lines appended to today's log.                              *)
publish_main(a, cookies, res) ==
    LET rejected(st) == [status |-> st, exit |-> 1, called |-> FALSE, log |-> <<>>]
    IN  IF ~cookies THEN rejected("auth_required")
        ELSE IF Len(a.title) > MaxTitleLen THEN rejected("validation_error")
        ELSE IF Len(a.content) > MaxContentLen THEN rejected("validation_error")
        ELSE IF ~validate_images(a.images) THEN rejected("validation_error")
        ELSE IF Len(a.topics) > MaxTopics THEN rejected("validation_error")
        ELSE IF a.dry_run
             THEN [status |-> "dry_run", exit |-> 0, called |-> FALSE, log |-> <<>>]
        ELSE IF res = "raise"
             THEN [status |-> "error", exit |-> 1, called |-> TRUE, log |-> <<>>]
        ELSE LET entry == LogEntry(a.title, Len(a.images), a.topics, res = "success")
             IN  IF res = "success"
                 THEN [status |-> "success", exit |-> 0, called |-> TRUE,
                       log |-> <<entry>>]
                 ELSE [status |-> "failed", exit |-> 1, called |-> TRUE,
                       log |-> <<entry>>]

(* with open(log_file, "a"): append to the file of the current day *)
AppendLog(lines) ==
    published' = [published EXCEPT !.today = published.today \o lines]

(* The model stops writing the log at MaxLog lines *)
LogRoom(lines) ==
    Len(published.earlier) + Len(published.today) + Len(lines) <= MaxLog

-----------------------------------------------------------------------------
(* xhs_generate_content.py: the Quasi-JSON Recovery Parser                  *)
(*                                                                         *)
(* Text is a string; At(s, i) is s[i-1] of the source (indices start at 1   *)
(* here) and is "" past the end, as s[i:i+1] is in Python.  A decoded JSON  *)
(* value is a record with a type tag t and a content v: the decoded text of *)
(* a string, the literal of a number, the key/value pairs of an object in   *)
(* insertion order, the items of an array.  The apostrophe stands for the   *)
(* backquote of a markdown fence, which a string of this language cannot    *)
(* hold.                                                                    *)

Fence == "'''"      \* the fence marker, three backquotes in the source

At(s, i) == IF i >= 1 /\ i <= Len(s) THEN SubSeq(s, i, i) ELSE ""

From(s, i) == IF i > Len(s) THEN "" ELSE SubSeq(s, i, Len(s))      \* s[i-1:]

StartsAt(s, i, p) ==
    i + Len(p) - 1 <= Len(s) /\ SubSeq(s, i, i + Len(p) - 1) = p

(* str.strip(), \s of re and the whitespace of the json scanner *)
Whitespace == {" ", "\n", "\t", "\r"}

RECURSIVE SkipWs(_, _)
SkipWs(s, i) == IF At(s, i) \in Whitespace THEN SkipWs(s, i + 1) ELSE i

RECURSIVE SkipWsBack(_, _)
SkipWsBack(s, j) == IF At(s, j) \in Whitespace THEN SkipWsBack(s, j - 1) ELSE j

(* text.strip() *)
Strip(s) ==
    LET i == SkipWs(s, 1)
        j == SkipWsBack(s, Len(s))
    IN  IF i > j THEN "" ELSE SubSeq(s, i, j)

(* text.split("\n") *)
RECURSIVE SplitLines(_, _, _)
SplitLines(s, i, line) ==
    IF i > Len(s) THEN <<line>>
    ELSE IF At(s, i) = "\n" THEN <<line>> \o SplitLines(s, i + 1, "")
    ELSE SplitLines(s, i + 1, line \o At(s, i))

(* "\n".join(lines) *)
RECURSIVE JoinLines(_)
JoinLines(lines) ==
    IF lines = <<>> THEN ""
    ELSE IF Len(lines) = 1 THEN lines[1]
    ELSE lines[1] \o "\n" \o JoinLines(Tail(lines))

(* Decoded values *)
JStr(s)    == [t |-> "str", v |-> s]
JNum(s)    == [t |-> "num", v |-> s]
JLit(s)    == [t |-> "lit", v |-> s]
JArr(xs)   == [t |-> "arr", v |-> xs]
JObj(kvs)  == [t |-> "obj", v |-> kvs]

(* dict[key] = value: a key already present keeps its place *)
DictSet(kvs, key, value) ==
    IF \E n \in 1..Len(kvs) : kvs[n][1] = key
    THEN [n \in 1..Len(kvs) |->
             IF kvs[n][1] = key THEN <<key, value>> ELSE kvs[n]]
    ELSE Append(kvs, <<key, value>>)

(* The outcome of a scanning function: the value and the index after it, or *)
(* the JSONDecodeError                                                      *)
Scanned(value, pos) == [ok |-> TRUE, val |-> value, pos |-> pos]
DecodeError         == [ok |-> FALSE, val |-> JLit("error"), pos |-> 0]

Digits == {"0", "1", "2", "3", "4", "5", "6", "7", "8", "9"}

RECURSIVE SkipDigits(_, _)
SkipDigits(s, i) == IF At(s, i) \in Digits THEN SkipDigits(s, i + 1) ELSE i

(* json.scanner NUMBER_RE: an optional minus, then 0 or a digit string not  *)
(* starting with 0, then an optional fraction and an optional exponent.     *)
(* Yields the index after the match, 0 when there is no match at i.         *)
match_number(s, i) ==
    LET d    == IF At(s, i) = "-" THEN i + 1 ELSE i
        int  == IF At(s, d) = "0" THEN d + 1
                ELSE IF At(s, d) \in Digits THEN SkipDigits(s, d)
                ELSE 0
        frac == IF int # 0 /\ At(s, int) = "." /\ At(s, int + 1) \in Digits
                THEN SkipDigits(s, int + 1) ELSE int
        sgn  == IF At(s, frac + 1) \in {"-", "+"} THEN frac + 2 ELSE frac + 1
        exp  == IF frac # 0 /\ At(s, frac) \in {"e", "E"} /\ At(s, sgn) \in Digits
                THEN SkipDigits(s, sgn) ELSE frac
    IN  exp

(* json.decoder BACKSLASH: the character an escape stands for.  \b, \f and  *)
(* \uXXXX are outside the alphabet of the model.                            *)
Unescape(e) ==
    CASE e = "n" -> "\n"
      [] e = "t" -> "\t"
      [] e = "r" -> "\r"
      [] OTHER   -> e

(* json.decoder py_scanstring, strict: i is the index after the opening     *)
(* quote, acc the characters decoded so far                                 *)
RECURSIVE scanstring(_, _, _)
scanstring(s, i, acc) ==
    LET c == At(s, i)
    IN  IF c = "" THEN DecodeError                     \* unterminated
        ELSE IF c = "\"" THEN Scanned(acc, i + 1)
        ELSE IF c = "\\"
             THEN IF At(s, i + 1) \in {"\"", "\\", "/", "n", "t", "r"}
                  THEN scanstring(s, i + 2, acc \o Unescape(At(s, i + 1)))
                  ELSE DecodeError                     \* invalid escape
        ELSE IF c \in {"\n", "\t", "\r"} THEN DecodeError   \* control character
        ELSE scanstring(s, i + 1, acc \o c)

RECURSIVE scan_once(_, _)
RECURSIVE scan_members(_, _, _)
RECURSIVE scan_items(_, _, _)

(* json.decoder JSONObject, the loop: i is the index after the opening      *)
(* quote of a key, kvs the pairs decoded so far                             *)
scan_members(s, i, kvs) ==
    LET key == scanstring(s, i, "")
    IN  IF ~key.ok THEN DecodeError
        ELSE LET colon == SkipWs(s, key.pos)
             IN  IF At(s, colon) # ":" THEN DecodeError
                 ELSE LET value == scan_once(s, SkipWs(s, colon + 1))
                      IN  IF ~value.ok THEN DecodeError
                          ELSE LET sep  == SkipWs(s, value.pos)
                                   kvs2 == DictSet(kvs, key.val, value.val)
                                   nxt  == SkipWs(s, sep + 1)
                               IN  IF At(s, sep) = "}"
                                   THEN Scanned(JObj(kvs2), sep + 1)
                                   ELSE IF At(s, sep) # "," THEN DecodeError
                                   ELSE IF At(s, nxt) # "\"" THEN DecodeError
                                   ELSE scan_members(s, nxt + 1, kvs2)

(* json.decoder JSONArray, the loop: i is the index of the next item *)
scan_items(s, i, xs) ==
    LET value == scan_once(s, i)
    IN  IF ~value.ok THEN DecodeError
        ELSE LET sep == SkipWs(s, value.pos)
                 xs2 == Append(xs, value.val)
             IN  IF At(s, sep) = "]" THEN Scanned(JArr(xs2), sep + 1)
                 ELSE IF At(s, sep) # "," THEN DecodeError
                 ELSE scan_items(s, SkipWs(s, sep + 1), xs2)

(* json.scanner py_make_scanner _scan_once *)
scan_once(s, i) ==
    LET c == At(s, i)
    IN  IF c = "" THEN DecodeError
        ELSE IF c = "\"" THEN LET str == scanstring(s, i + 1, "")
                              IN  IF str.ok THEN Scanned(JStr(str.val), str.pos)
                                  ELSE DecodeError
        ELSE IF c = "{"
             THEN LET j == SkipWs(s, i + 1)
                  IN  IF At(s, j) = "}" THEN Scanned(JObj(<<>>), j + 1)
                      ELSE IF At(s, j) # "\"" THEN DecodeError
                      ELSE scan_members(s, j + 1, <<>>)
        ELSE IF c = "["
             THEN LET j == SkipWs(s, i + 1)
                  IN  IF At(s, j) = "]" THEN Scanned(JArr(<<>>), j + 1)
                      ELSE scan_items(s, j, <<>>)
        ELSE IF StartsAt(s, i, "null") THEN Scanned(JLit("null"), i + 4)
        ELSE IF StartsAt(s, i, "true") THEN Scanned(JLit("true"), i + 4)
        ELSE IF StartsAt(s, i, "false") THEN Scanned(JLit("false"), i + 5)
        ELSE IF match_number(s, i) # 0
             THEN Scanned(JNum(SubSeq(s, i, match_number(s, i) - 1)),
                          match_number(s, i))
        ELSE IF StartsAt(s, i, "NaN") THEN Scanned(JLit("NaN"), i + 3)
        ELSE IF StartsAt(s, i, "Infinity") THEN Scanned(JLit("Infinity"), i + 8)
        ELSE IF StartsAt(s, i, "-Infinity") THEN Scanned(JLit("-Infinity"), i + 9)
        ELSE DecodeError

(* json.loads(s): <<>> for JSONDecodeError, <<value>> otherwise *)
json_loads(s) ==
    LET r == scan_once(s, SkipWs(s, 1))
    IN  IF ~r.ok THEN <<>>
        ELSE IF SkipWs(s, r.pos) # Len(s) + 1 THEN <<>>        \* Extra data
        ELSE <<r.val>>

(* _fix_json, first statement, the re.sub call: a comma followed by         *)
(* optional whitespace and a closing brace or bracket is replaced by that   *)
(* brace or bracket                                                         *)
RECURSIVE drop_trailing_commas(_, _)
drop_trailing_commas(s, i) ==
    IF i > Len(s) THEN ""
    ELSE LET j == SkipWs(s, i + 1)
         IN  IF At(s, i) = "," /\ At(s, j) \in {"}", "]"}
             THEN At(s, j) \o drop_trailing_commas(s, j + 1)
             ELSE At(s, i) \o drop_trailing_commas(s, i + 1)

(* every quote met inside a string taken for its end *)
ClosesString_always(rest) == rest \in {rest}

(* _fix_json, lines 162-163: rest is the first character after the quote    *)
(* that is not whitespace, "" at the end of the text                       *)
ClosesString(rest) == rest \in {"", ",", ":", "}", "]"}

(* _fix_json, the loop over the characters *)
RECURSIVE escape_inner_quotes(_, _, _)
escape_inner_quotes(s, i, in_string) ==
    IF i > Len(s) THEN ""
    ELSE LET ch == At(s, i)
         IN  IF ~in_string
             THEN ch \o escape_inner_quotes(s, i + 1, ch = "\"")
             ELSE IF ch = "\\"
             THEN ch \o At(s, i + 1) \o escape_inner_quotes(s, i + 2, TRUE)
             ELSE IF ch = "\n"
             THEN "\\n" \o escape_inner_quotes(s, i + 1, TRUE)
             ELSE IF ch = "\""
             THEN IF ClosesString(At(s, SkipWs(s, i + 1)))
                  THEN ch \o escape_inner_quotes(s, i + 1, FALSE)
                  ELSE "\\\"" \o escape_inner_quotes(s, i + 1, TRUE)
             ELSE ch \o escape_inner_quotes(s, i + 1, TRUE)

(* _fix_json *)
fix_json(s) == escape_inner_quotes(drop_trailing_commas(s, 1), 1, FALSE)

(* extract_json, lines 75-79: the index of the last line, not the first,    *)
(* that is a bare fence; the number of lines when there is none.  Lines are *)
(* counted from 1 here, so the slice lines[1:end] is SubSeq(lines, 2, end). *)
RECURSIVE fence_end(_, _)
fence_end(lines, i) ==
    IF i <= 1 THEN Len(lines)
    ELSE IF Strip(lines[i]) = Fence THEN i - 1
    ELSE fence_end(lines, i - 1)

(* the closing fence left in the text *)
strip_fence_open_only(text) ==
    IF StartsAt(text, 1, Fence)
    THEN LET lines == SplitLines(text, 1, "")
         IN  Strip(JoinLines(SubSeq(lines, 2, Len(lines))))
    ELSE text

(* extract_json, lines 72-80 *)
strip_fence(text) ==
    IF StartsAt(text, 1, Fence)
    THEN LET lines == SplitLines(text, 1, "")
         IN  Strip(JoinLines(SubSeq(lines, 2, fence_end(lines, Len(lines)))))
    ELSE text

RECURSIVE IndexOf(_, _, _)
IndexOf(s, c, i) ==
    IF i > Len(s) THEN 0
    ELSE IF At(s, i) = c THEN i
    ELSE IndexOf(s, c, i + 1)

(* the last closing brace of the text taken for the matching one *)
matching_brace_last(s, i, depth) ==
    IF \E j \in i..Len(s) : At(s, j) = "}"
    THEN CHOOSE j \in i..Len(s) :
             At(s, j) = "}" /\ \A k \in (j + 1)..Len(s) : At(s, k) # "}"
    ELSE 0

(* extract_json, lines 99-105: the index of the brace that brings the depth *)
(* back to zero, 0 when none does                                           *)
RECURSIVE matching_brace(_, _, _)
matching_brace(s, i, depth) ==
    IF i > Len(s) THEN 0
    ELSE IF At(s, i) = "{" THEN matching_brace(s, i + 1, depth + 1)
    ELSE IF At(s, i) = "}"
         THEN IF depth - 1 = 0 THEN i ELSE matching_brace(s, i + 1, depth - 1)
    ELSE matching_brace(s, i + 1, depth)

(* extract_json, lines 94-116: <<>> when the fallback finds nothing *)
brace_fallback(text) ==
    LET start == IndexOf(text, "{", 1)
        close == IF start = 0 THEN 0 ELSE matching_brace(text, start, 0)
    IN  IF close = 0 THEN <<>>
        ELSE LET candidate == SubSeq(text, start, close)
             IN  IF json_loads(candidate) # <<>> THEN json_loads(candidate)
                 ELSE json_loads(fix_json(candidate))

Returned(value) == [ok |-> TRUE, val |-> value, length |-> 0]
ValueError(n)   == [ok |-> FALSE, val |-> JLit("error"), length |-> n]

(* extract_json *)
extract_json(raw) ==
    LET text == strip_fence(Strip(raw))
    IN  IF json_loads(text) # <<>> THEN Returned(json_loads(text)[1])
        ELSE IF json_loads(fix_json(text)) # <<>>
             THEN Returned(json_loads(fix_json(text))[1])
        ELSE IF brace_fallback(text) # <<>>
             THEN Returned(brace_fallback(text)[1])
        ELSE ValueError(Len(text))

(* No reply is being parsed *)
ParseIdle ==
    /\ llm_object = JObj(<<>>)
    /\ llm_shape = "bare"
    /\ llm_text = "{}"
    /\ parse_result = <<>>
    /\ repair_result = <<>>


-----------------------------------------------------------------------------
(* The sibling scripts as the orchestrator sees them through run_script *)

(* Snapshots xhs_trending.py can save.  Note titles are non-empty and       *)
(* keywords have at least two characters (the scraper filters both); the     *)
(* fallback topics below never occur in a snapshot.  A scrape that found no  *)
(* note still succeeds and saves a snapshot without notes or analysis.       *)
SnapKeywords == [weighted |-> <<"ai">>, notes |-> <<LongTitle>>,
                 keywords |-> <<"ai">>]
SnapNotes    == [weighted |-> <<>>, notes |-> <<LongTitle>>, keywords |-> <<>>]
SnapEmpty    == [weighted |-> <<>>, notes |-> <<>>, keywords |-> <<>>]
Snapshots    == {SnapKeywords, SnapNotes, SnapEmpty}

(* The topics a run can take from one of these snapshots *)
SnapshotTopics == {"ai", CutTitle}

(* What the content generation can produce *)
GenTitles  == {"ai"}
GenContent == "body text"
GenTopics  == <<"tag1", "tag2">>
OutputDir  == "generated/ts"

(* The paths generate_images returns when n prompts yielded an image *)
ImagePaths(n) == [i \in 1..n |-> "image_" \o ToString(i) \o ".png"]

(* The package xhs_generate_content.py persists as package.json *)
Package(title, n, tp) ==
    [title |-> title, content |-> GenContent, topics |-> GenTopics,
     images |-> ImagePaths(n), topic |-> tp]

(* The result line xhs_generate_content.py prints on success, the last line *)
(* of its output that starts with a brace and so the one run_script parses. *)
(* It has no "package" key.                                                 *)
GenSuccess(title, n) ==
    [status |-> "success", title |-> title,
     content_preview |-> Prefix(GenContent, 200), topics |-> GenTopics,
     image_count |-> n, output_dir |-> OutputDir]

(* run_script outcomes: the parsed status line, or the subprocess timeout   *)
(* (subprocess.TimeoutExpired is not caught by main: traceback, exit 1).    *)
Crash == [out |-> [status |-> "none"], exit_code |-> 1]

(* run_script, lines 137-143: the record it makes up when the output of the *)
(* script has no line that parses                                           *)
ScriptFailed == [status |-> "error"]

(* What run_script("xhs_status.py") can come back with *)
StatusResults ==
    {[status |-> "timeout"], ScriptFailed,
     [status |-> "valid", logged_in |-> TRUE],
     [status |-> "not_logged_in", logged_in |-> FALSE]}

(* What run_script("xhs_trending.py") can come back with; output_file 1 is  *)
(* the file the scrape has just written, the newest of trending/.           *)
TrendingResults ==
    {[status |-> "timeout"], ScriptFailed,
     [status |-> "success", output_file |-> 1]}

(* d.get(key, default) *)
Get(d, key, default) == IF key \in DOMAIN d THEN d[key] ELSE default

-----------------------------------------------------------------------------
(* xhs_auto_pipeline.py: main() *)

(* the limit check written with > instead of >= *)
QuotaReached_strict(count, max_daily) == count > max_daily

(* if today_count >= max_daily *)
QuotaReached(count, max_daily) == count >= max_daily

(* the category ignored by the fallback *)
FallbackTopic_generic(cat) == GenericTopic

(* topic = category if category != "综合" else "生活分享" *)
FallbackTopic(cat) == IF cat # CatchAll THEN cat ELSE GenericTopic

(* package = gen_result.get("package", {}) followed by the .get defaults     *)
(* main() reads the package with.                                            *)
PackageOf(gen) ==
    IF "package" \in DOMAIN gen
    THEN gen.package
    ELSE [title |-> "", content |-> "", topics |-> <<>>, images |-> <<>>]

(* the mode test comparing against a misspelt literal *)
IsPreview_typo(m) == m = "Preview"

(* if mode == "preview" *)
IsPreview(m) == m = "preview"

(* the empty-image guard left out *)
NoImages_unguarded(images) == FALSE

(* if not images *)
NoImages(images) == images = <<>>

(* the login test satisfied by any result that has the key *)
LoggedIn_haskey(res) == "logged_in" \in DOMAIN res

(* status_result.get("logged_in") *)
LoggedIn(res) == Get(res, "logged_in", FALSE)

(* the generation result never taken for a failure *)
GenFailed_never(gen) == FALSE

(* if gen_result.get("status") != "success" *)
GenFailed(gen) == Get(gen, "status", "") # "success"

(* if trending_result.get("status") == "success" and                        *)
(*    trending_result.get("output_file")                                    *)
ScrapeSucceeded(res) ==
    Get(res, "status", "") = "success" /\ Get(res, "output_file", 0) # 0

Call(script, args) == [script |-> script, args |-> args]

(* the call recorded ahead of the earlier ones *)
run_script_first(script, args) == <<Call(script, args)>> \o calls

(* run_script: the call is made and has returned when the next statement    *)
(* runs (subprocess.run waits for the child)                                *)
run_script(script, args) == Append(calls, Call(script, args))

(* main(), argument and config handling down to the daily limit check *)
StartRun(argMode, argCategory, skip) ==
    /\ pc = "idle"
    /\ LET cfg == load_config
           m   == IF argMode # "" THEN argMode ELSE cfg.mode
           cat == IF argCategory # "" THEN argCategory ELSE cfg.category
           cnt == count_today_posts
       IN  /\ mode' = m
           /\ category' = cat
           /\ skip_trending' = skip
           /\ today_count' = cnt
           /\ IF QuotaReached(cnt, cfg.max_daily_posts)
              THEN /\ out' = [status |-> "limit_reached"]
                   /\ exit_code' = 0
                   /\ pc' = "done"
              ELSE /\ out' = [status |-> "none"]
                   /\ exit_code' = -1
                   /\ pc' = "login"
    /\ trending_file' = 0
    /\ status_result' = [status |-> "none"]
    /\ trending_result' = [status |-> "none"]
    /\ published_topics' = {}
    /\ topic' = ""
    /\ selected' = FALSE
    /\ gen_result' = [status |-> "none"]
    /\ calls' = <<>>
    /\ UNCHANGED <<diskVars, fnVars>>

(* main(), steps 2 (tail) and 3: snapshot fallback and topic selection.     *)
(* tf is trending_file after the scrape step, trs the trending directory.   *)
SelectTopic(tf, trs) ==
    LET file == IF tf # 0 THEN tf ELSE find_latest_trending
        pub  == IF load_config.skip_published_topics
                THEN get_published_topics ELSE {}
        t == IF file # 0
             THEN select_topic_from_trending(trs[file], pub)
             ELSE <<>>
    IN  /\ trending_file' = file
        /\ published_topics' = pub
        /\ selected' = (t # <<>>)
        /\ topic' = IF t = <<>> THEN FallbackTopic(category) ELSE t[1]

(* main(), step 1: the login check *)
CheckLogin(r) ==
    /\ pc = "login"
    /\ calls' = run_script("xhs_status.py", [none |-> 0])
    /\ CASE r.status = "timeout" ->
              /\ pc' = "done" /\ exit_code' = Crash.exit_code /\ out' = Crash.out
              /\ UNCHANGED <<status_result, trending_file, published_topics,
                             topic, selected>>
         [] r.status # "timeout" /\ ~LoggedIn(r) ->
              /\ status_result' = r
              /\ pc' = "done" /\ exit_code' = 1
              /\ out' = [status |-> "auth_required"]
              /\ UNCHANGED <<trending_file, published_topics, topic, selected>>
         [] r.status # "timeout" /\ LoggedIn(r) /\ skip_trending ->
              /\ status_result' = r
              /\ pc' = "generate"
              /\ SelectTopic(0, trending)
              /\ UNCHANGED <<exit_code, out>>
         [] r.status # "timeout" /\ LoggedIn(r) /\ ~skip_trending ->
              /\ status_result' = r
              /\ pc' = "scrape"
              /\ UNCHANGED <<trending_file, published_topics, topic, selected,
                             exit_code, out>>
    /\ UNCHANGED <<diskVars, fnVars, mode, category, skip_trending, today_count,
                   trending_result, gen_result>>

(* main(), step 2: the trending scrape; then step 3.  snap is what the     *)
(* scrape saves when it succeeds.                                           *)
Scrape(r, snap) ==
    /\ pc = "scrape"
    /\ calls' = run_script("xhs_trending.py", [category |-> category])
    /\ CASE r.status = "timeout" ->
              /\ pc' = "done" /\ exit_code' = Crash.exit_code /\ out' = Crash.out
              /\ UNCHANGED <<trending, trending_result, trending_file,
                             published_topics, topic, selected>>
         [] r.status # "timeout" /\ ScrapeSucceeded(r) ->
              /\ trending' = <<snap>>
              /\ trending_result' = r
              /\ pc' = "generate"
              /\ SelectTopic(r.output_file, trending')
              /\ UNCHANGED <<exit_code, out>>
         [] r.status # "timeout" /\ ~ScrapeSucceeded(r) ->
              /\ trending_result' = r
              /\ pc' = "generate"
              /\ SelectTopic(0, trending)
              /\ UNCHANGED <<trending, exit_code, out>>
    /\ UNCHANGED <<config, published, package_file, publishedFor,
                   fnVars, mode, category, skip_trending, today_count,
                   status_result, gen_result>>

(* main(), lines 286-357: what follows the generation call.  gen: the      *)
(* parsed result of xhs_generate_content.py; m: mode; count: today_count.   *)
(* Yields the possible endings of the run, one for each thing the publish   *)
(* script can meet when it is called: the terminal record, the exit code,   *)
(* the calls made after the generation call and the lines xhs_publish.py    *)
(* appends to the log.                                                      *)
AfterGenerate(gen, m, count) ==
    LET package == PackageOf(gen)
        images  == package.images
        args    == [title |-> package.title, content |-> package.content,
                    images |-> images, topics |-> package.topics,
                    dry_run |-> FALSE]
        call    == <<Call("xhs_publish.py", args)>>
        Ending(p) ==
            IF p.status = "success"
            THEN [out |-> [status |-> "success", title |-> package.title,
                           today_posts |-> count + 1],
                  exit_code |-> 0, calls |-> call, log |-> p.log]
            ELSE [out |-> [status |-> "publish_failed", title |-> package.title,
                           content |-> package.content, images |-> images],
                  exit_code |-> 1, calls |-> call, log |-> p.log]
    IN  IF GenFailed(gen)
        THEN {[out |-> [status |-> "error"], exit_code |-> 1,
               calls |-> <<>>, log |-> <<>>]}
        ELSE IF IsPreview(m)
        THEN {[out |-> [status |-> "preview", title |-> package.title,
                        content |-> package.content, topics |-> package.topics,
                        images |-> package.images,
                        output_dir |-> Get(gen, "output_dir", "")],
               exit_code |-> 0, calls |-> <<>>, log |-> <<>>]}
        ELSE IF NoImages(images)
        THEN {[out |-> [status |-> "error", title |-> package.title,
                        content |-> package.content, topics |-> package.topics],
               exit_code |-> 1, calls |-> <<>>, log |-> <<>>]}
        ELSE {[out |-> Crash.out, exit_code |-> Crash.exit_code,
               calls |-> call, log |-> <<>>]}
             \cup {Ending(publish_main(args, cookies, res)) :
                     cookies \in BOOLEAN, res \in PublishOutcomes}

(* What run_script("xhs_generate_content.py") can come back with: a timeout, *)
(* an error status, or the success line of a run that saved n images.        *)
GenResults ==
    {[status |-> "timeout"], [status |-> "error"]}
    \cup {GenSuccess(t, n) : t \in GenTitles, n \in 0..MaxImages}

(* main(), step 4 and step 5: the generation call and what follows it.      *)
(* On success the script has persisted its package before it reports.       *)
GenCall == Call("xhs_generate_content.py", [topic |-> topic])

Generate(gen) ==
    /\ pc = "generate"
    /\ IF gen.status = "timeout"
       THEN /\ calls' = run_script(GenCall.script, GenCall.args)
            /\ gen_result' = gen_result
            /\ out' = Crash.out
            /\ exit_code' = Crash.exit_code
            /\ UNCHANGED <<published, package_file, publishedFor>>
       ELSE \E fin \in AfterGenerate(gen, mode, today_count) :
            /\ calls' = run_script(GenCall.script, GenCall.args) \o fin.calls
            /\ gen_result' = gen
            /\ out' = fin.out
            /\ exit_code' = fin.exit_code
            /\ LogRoom(fin.log)
            /\ AppendLog(fin.log)
            /\ package_file' = IF gen.status = "success"
                               THEN <<Package(gen.title, gen.image_count, topic)>>
                               ELSE package_file
            /\ publishedFor' = IF fin.log # <<>> /\ fin.log[1].success
                               THEN publishedFor \cup ({topic} \cap SnapshotTopics)
                               ELSE publishedFor
    /\ pc' = "done"
    /\ UNCHANGED <<config, trending, fnVars, mode, category,
                   skip_trending, today_count, trending_file, status_result,
                   trending_result, published_topics, topic, selected>>

(* The pipeline process ends: its locals are gone, the files remain *)
RunIdle ==
    /\ pc = "idle"
    /\ mode = "preview"
    /\ category = CatchAll
    /\ skip_trending = FALSE
    /\ today_count = 0
    /\ trending_file = 0
    /\ status_result = [status |-> "none"]
    /\ trending_result = [status |-> "none"]
    /\ published_topics = {}
    /\ topic = ""
    /\ selected = FALSE
    /\ gen_result = [status |-> "none"]
    /\ calls = <<>>
    /\ out = [status |-> "none"]
    /\ exit_code = 0

Exit ==
    /\ pc = "done"
    /\ pc' = "idle"
    /\ mode' = "preview"
    /\ category' = CatchAll
    /\ skip_trending' = FALSE
    /\ today_count' = 0
    /\ trending_file' = 0
    /\ status_result' = [status |-> "none"]
    /\ trending_result' = [status |-> "none"]
    /\ published_topics' = {}
    /\ topic' = ""
    /\ selected' = FALSE
    /\ gen_result' = [status |-> "none"]
    /\ calls' = <<>>
    /\ out' = [status |-> "none"]
    /\ exit_code' = 0
    /\ UNCHANGED <<diskVars, fnVars>>

-----------------------------------------------------------------------------
(* Operations run from the command line between pipeline runs *)

(* --set-mode m saving the record of defaults with the mode *)
set_mode_defaults(cfg, m) ==
    [mode |-> m, category |-> CatchAll, skip_published_topics |-> TRUE,
     max_daily_posts |-> 1]

(* line 172: config["mode"] = args.set_mode *)
set_mode(cfg, m) == [cfg EXCEPT !.mode = m]

(* xhs_auto_pipeline.py --set-mode m, lines 168-179: the record is saved,   *)
(* the answer printed and main() returns before the pipeline starts; out   *)
(* keeps the answer until the next run                                      *)
SetMode(m) ==
    /\ pc = "idle"
    /\ save_config(set_mode(load_config, m))
    /\ out' = [status |-> "success", config |-> set_mode(load_config, m)]
    /\ exit_code' = 0
    /\ UNCHANGED <<published, trending, package_file, publishedFor, fnVars,
                   pc, mode, category, skip_trending, today_count, trending_file,
                   status_result, trending_result, published_topics, topic,
                   selected, gen_result, calls>>

(* xhs_auto_pipeline.py --config, lines 181-188 *)
ShowConfig ==
    /\ pc = "idle"
    /\ out' = [status |-> "info", config |-> load_config,
               today_posts |-> count_today_posts]
    /\ exit_code' = 0
    /\ UNCHANGED <<diskVars, fnVars,
                   pc, mode, category, skip_trending, today_count, trending_file,
                   status_result, trending_result, published_topics, topic,
                   selected, gen_result, calls>>

(* The arguments of a direct xhs_publish.py run: the newest generated       *)
(* package (the user confirms a preview), published or validated only.      *)
ArgsOfPackage(pkg, dry) ==
    [title |-> pkg.title, content |-> pkg.content, images |-> pkg.images,
     topics |-> pkg.topics, dry_run |-> dry]

PublishArgs == {ArgsOfPackage(pkg, d) : pkg \in SeqRange(package_file), d \in BOOLEAN}

(* xhs_publish.py run directly *)
Publish(a, cookies, res) ==
    /\ pc = "idle"
    /\ LET p == publish_main(a, cookies, res)
       IN  /\ LogRoom(p.log)
           /\ AppendLog(p.log)
           /\ publishedFor' = IF p.status = "success"
                              THEN publishedFor
                                   \cup ({package_file[1].topic} \cap SnapshotTopics)
                              ELSE publishedFor
    /\ UNCHANGED <<config, trending, package_file, runVars, fnVars>>

(* Midnight: datetime.now() moves to the next calendar day, whose file does *)
(* not exist yet; the file of the day that ends joins the earlier ones.     *)
NextDay ==
    /\ pc = "idle"
    /\ published' = [today |-> <<>>,
                     earlier |-> published.earlier \o published.today]
    /\ UNCHANGED <<config, trending, package_file, publishedFor,
                   runVars, fnVars>>

-----------------------------------------------------------------------------
(* The specification of the pipeline *)

ConfigDomain ==
    [mode : {"auto", "preview"}, category : {CatchAll},
     skip_published_topics : BOOLEAN, max_daily_posts : 1..MaxCeiling]

(* generate_copywriting, lines 224-229: the validation of the decoded      *)
(* record.  A field the reply lacks is <<>>, a field it has is <<value>>.   *)

(* the validation with the prompt list left as decoded *)
validate_copywriting_all_prompts(result, image_count) ==
    [title   |-> IF result.title # <<>> /\ Len(result.title[1]) > MaxTitleLen
                 THEN <<Prefix(result.title[1], MaxTitleLen)>>
                 ELSE result.title,
     content |-> IF result.content # <<>>
                    /\ Len(result.content[1]) > MaxContentLen
                 THEN <<Prefix(result.content[1], MaxContentLen)>>
                 ELSE result.content,
     topics  |-> IF result.topics = <<>> THEN << <<>> >>
                 ELSE <<Prefix(result.topics[1], MaxTopics)>>,
     image_prompts |-> IF result.image_prompts = <<>> THEN << <<>> >>
                       ELSE result.image_prompts]

validate_copywriting(result, image_count) ==
    [title   |-> IF result.title # <<>> /\ Len(result.title[1]) > MaxTitleLen
                 THEN <<Prefix(result.title[1], MaxTitleLen)>>
                 ELSE result.title,
     content |-> IF result.content # <<>>
                    /\ Len(result.content[1]) > MaxContentLen
                 THEN <<Prefix(result.content[1], MaxContentLen)>>
                 ELSE result.content,
     topics  |-> IF result.topics = <<>> THEN << <<>> >>
                 ELSE <<Prefix(result.topics[1], MaxTopics)>>,
     image_prompts |-> IF result.image_prompts = <<>> THEN << <<>> >>
                       ELSE <<Prefix(result.image_prompts[1], image_count)>>]

TruncIdle ==
    /\ cw_decoded = [title |-> <<>>, content |-> <<>>, topics |-> <<>>,
                     image_prompts |-> <<>>]
    /\ cw_image_count = 1
    /\ cw_result = <<>>

GenIdle ==
    /\ gen_pc = "done"
    /\ gw_response = [status |-> 500, content |-> ""]
    /\ arg_image_count = 1
    /\ preview_only = TRUE
    /\ image_env = FALSE
    /\ copywriting = <<>>
    /\ img_i = 0
    /\ attempt = 0
    /\ gen_image_paths = <<>>
    /\ image_call = "none"
    /\ effects = <<>>
    /\ package_json = <<>>
    /\ gen_out = [status |-> "none", error |-> "", exit |-> 0]

KwIdle ==
    /\ kw_notes = <<>>
    /\ kw_result = <<>>

ExIdle ==
    /\ ex_message = [images |-> <<>>,
                     content |-> [kind |-> "str", parts |-> <<>>, text |-> ""]]
    /\ ex_result = <<>>

PubIdle ==
    /\ pub_args = [title |-> "", content |-> "", images |-> <<>>,
                   topics |-> <<>>, dry_run |-> TRUE]
    /\ pub_result = <<>>

LogIdle ==
    /\ log_files = [today |-> <<>>, earlier |-> <<>>]
    /\ log_result = <<>>

MoreIdle == ExIdle /\ PubIdle /\ LogIdle

LaterIdle == TruncIdle /\ GenIdle /\ KwIdle /\ MoreIdle

SelIdle ==
    /\ sel_data = SnapNotes
    /\ sel_published = {}
    /\ sel_result = <<>>

DiskEmpty ==
    /\ published = [today |-> <<>>, earlier |-> <<>>]
    /\ trending = <<>>
    /\ package_file = <<>>
    /\ publishedFor = {}

Init ==
    /\ config \in ConfigDomain
    /\ DiskEmpty
    /\ RunIdle
    /\ SelIdle
    /\ ParseIdle
    /\ LaterIdle

Next ==
    \/ \E m \in {"", "auto", "preview"}, c \in {"", "tech"}, s \in BOOLEAN :
          StartRun(m, c, s)
    \/ \E r \in StatusResults : CheckLogin(r)
    \/ \E r \in TrendingResults, snap \in Snapshots : Scrape(r, snap)
    \/ \E gen \in GenResults : Generate(gen)
    \/ Exit
    \/ \E m \in {"auto", "preview"} : SetMode(m)
    \/ ShowConfig
    \/ \E a \in PublishArgs, cookies \in BOOLEAN, res \in PublishOutcomes :
          Publish(a, cookies, res)
    \/ NextDay

Spec == Init /\ [][Next]_vars

-----------------------------------------------------------------------------
(* The specification of the Topic Selector as a function: every snapshot    *)
(* and published set within the bounds, one call.                           *)

SeqsUpTo(S, n) == UNION {[1..k -> S] : k \in 0..n}

SelWords     == {"x", "ai", "tea"}
SelTitles    == {"ai", "x", LongTitle}
SelPublished == {"ai", "tea", LongTitle, CutTitle}

SelSnapshots ==
    [weighted : SeqsUpTo(SelWords, MaxKw), notes : SeqsUpTo(SelTitles, MaxNotes),
     keywords : SeqsUpTo(SelWords, MaxKw)]

InitSel ==
    /\ config = [mode |-> "preview", category |-> CatchAll,
                 skip_published_topics |-> TRUE, max_daily_posts |-> 1]
    /\ DiskEmpty
    /\ RunIdle
    /\ LaterIdle
    /\ sel_data \in SelSnapshots
    /\ sel_published \in SUBSET SelPublished
    /\ sel_result = <<>>
    /\ ParseIdle

SelectCall ==
    /\ sel_result = <<>>
    /\ sel_result' = <<select_topic_from_trending(sel_data, sel_published)>>
    /\ UNCHANGED <<diskVars, runVars, parseVars, laterVars, sel_data,
                   sel_published>>

NextSel == SelectCall

SpecSel == InitSel /\ [][NextSel]_vars

-----------------------------------------------------------------------------
(* The specification of the Recovery Parser as a function: a reply of the   *)
(* language model that carries one JSON object, one call.                   *)

(* json.dumps of a string: quotes, backslashes and newlines escaped *)
RECURSIVE EscapeText(_)
EscapeText(s) ==
    IF s = "" THEN ""
    ELSE LET c == At(s, 1)
         IN  (CASE c = "\"" -> "\\\""
                [] c = "\\" -> "\\\\"
                [] c = "\n" -> "\\n"
                [] OTHER    -> c) \o EscapeText(From(s, 2))

(* The JSON text of a value: compact, or one member to a line when pretty *)
RECURSIVE Render(_, _)
RECURSIVE RenderMembers(_, _, _)
RenderMembers(kvs, n, pretty) ==
    IF n > Len(kvs) THEN ""
    ELSE (IF pretty THEN "\n  " ELSE "")
         \o "\"" \o EscapeText(kvs[n][1]) \o "\":" \o (IF pretty THEN " " ELSE "")
         \o Render(kvs[n][2], FALSE)
         \o (IF n < Len(kvs) THEN "," ELSE IF pretty THEN "\n" ELSE "")
         \o RenderMembers(kvs, n + 1, pretty)

Render(value, pretty) ==
    CASE value.t = "str" -> "\"" \o EscapeText(value.v) \o "\""
      [] value.t = "obj" -> "{" \o RenderMembers(value.v, 1, pretty) \o "}"
      [] OTHER           -> value.v

(* The values of the members: a number, plain text, text with a closing     *)
(* brace, text holding a fence marker, text with a quote in it              *)
Atoms == {JNum("1"), JStr("b"), JStr(":}"), JStr(Fence), JStr("q\"r")}

(* Objects with a quoted word in a string value *)
QuotedObjects ==
    {JObj(<< <<"a", JStr("a \"b\" c")>> >>),
     JObj(<< <<"a", JStr("q\"r")>>, <<"b", JStr("a \"b\" c")>> >>),
     JObj(<< <<"a", JStr("a \"b\" c")>>, <<"b", JNum("1")>> >>)}

RECURSIVE Values(_)
RECURSIVE Objects(_)
Objects(d) ==
    {JObj(<<>>)}
    \cup {JObj(<< <<"a", x>> >>) : x \in Values(d - 1)}
    \cup {JObj(<< <<"a", x>>, <<"b", y>> >>) : x \in Atoms, y \in Values(d - 1)}

Values(d) == IF d = 0 THEN Atoms ELSE Atoms \cup Objects(d)

(* The reply of a model that wrote the quotes inside string values without  *)
(* the backslash: every escaped quote of the JSON text s loses its escape   *)
RECURSIVE Unescaped(_, _)
Unescaped(s, i) ==
    IF i > Len(s) THEN ""
    ELSE IF At(s, i) = "\\" /\ At(s, i + 1) = "\""
         THEN "\"" \o Unescaped(s, i + 2)
    ELSE At(s, i) \o Unescaped(s, i + 1)

(* How the reply wraps the object: in a fenced block (each fence on a line  *)
(* of its own), in prose, or not at all                                     *)
Wrappings ==
    {[shape |-> "fenced", before |-> Fence \o "json\n", after |-> "\n" \o Fence],
     [shape |-> "fenced", before |-> Fence \o "\n", after |-> "\n" \o Fence \o "\n"],
     [shape |-> "fenced", before |-> " " \o Fence \o "json \n\n",
                          after |-> "\n  " \o Fence \o " "],
     [shape |-> "prose", before |-> "Here: ", after |-> ""],
     [shape |-> "prose", before |-> "", after |-> "\nDone."],
     [shape |-> "prose", before |-> "Here it is:\n", after |-> "\nDone."],
     [shape |-> "prose", before |-> "For {topic}: ", after |-> ""],
     [shape |-> "prose", before |-> "Note {x}:\n", after |-> "\n"],
     [shape |-> "bare", before |-> "", after |-> ""]}

InitParse ==
    /\ config = [mode |-> "preview", category |-> CatchAll,
                 skip_published_topics |-> TRUE, max_daily_posts |-> 1]
    /\ DiskEmpty
    /\ RunIdle
    /\ SelIdle
    /\ LaterIdle
    /\ \E obj \in Objects(MaxDepth) \cup QuotedObjects, pretty \in BOOLEAN :
          /\ llm_object = obj
          /\ \/ \E w \in Wrappings :
                   /\ llm_shape = w.shape
                   /\ llm_text = w.before \o Render(obj, pretty) \o w.after
             \/ /\ llm_shape = "unescaped"
                /\ llm_text = Unescaped(Render(obj, pretty), 1)
                /\ llm_text # Render(obj, pretty)
    /\ parse_result = <<>>
    /\ repair_result = <<>>

(* result = extract_json(content) *)
ExtractCall ==
    /\ parse_result = <<>>
    /\ repair_result = <<>>
    /\ parse_result' = <<extract_json(llm_text)>>
    /\ UNCHANGED <<diskVars, runVars, selVars, laterVars, llm_object,
                   llm_shape, llm_text, repair_result>>

(* _fix_json(text) *)
RepairCall ==
    /\ repair_result = <<>>
    /\ parse_result = <<>>
    /\ repair_result' = <<fix_json(llm_text)>>
    /\ UNCHANGED <<diskVars, runVars, selVars, laterVars, llm_object,
                   llm_shape, llm_text, parse_result>>

NextParse == ExtractCall \/ RepairCall

SpecParse == InitParse /\ [][NextParse]_vars

-----------------------------------------------------------------------------
(* Properties *)

PublishCalls == {i \in 1..Len(calls) : calls[i].script = "xhs_publish.py"}

Running == pc # "idle"

(* The package the generation step of this run produced *)
GenSucceeded == pc = "done" /\ gen_result.status = "success"
Generated    == package_file[1]

(* C1: a run that starts with today's log holding at least max_daily_posts  *)
(* entries ends in limit_reached with exit 0 and has called no script.      *)
C1_QuotaGate ==
    (Running /\ today_count >= config.max_daily_posts)
        => /\ pc = "done"
           /\ out.status = "limit_reached"
           /\ exit_code = 0
           /\ calls = <<>>

C1_Witness ==
    /\ pc = "done"
    /\ today_count = config.max_daily_posts
    /\ out.status = "limit_reached"

(* C2: an auto run whose generation succeeded with at least one image calls *)
(* the publish script exactly once, with the generated title, body, image   *)
(* paths and topic tags.                                                    *)
C2_AutoPublishesPackage ==
    (GenSucceeded /\ mode = "auto" /\ gen_result.image_count >= 1)
        => /\ Cardinality(PublishCalls) = 1
           /\ \A i \in PublishCalls :
                 /\ calls[i].args.title = Generated.title
                 /\ calls[i].args.content = Generated.content
                 /\ calls[i].args.images = Generated.images
                 /\ calls[i].args.topics = Generated.topics

(* C3: the preview record of a run carries the title, body, topics and      *)
(* image paths the generation step produced.                                *)
C3_PreviewCarriesPackage ==
    (GenSucceeded /\ out.status = "preview")
        => /\ out.title = Generated.title
           /\ out.content = Generated.content
           /\ out.topics = Generated.topics
           /\ out.images = Generated.images

(* C4: a preview run never calls the publish script and appends nothing to  *)
(* the log; when its generation succeeded it ends in preview with exit 0.   *)
C4_PreviewNeverPublishes ==
    (Running /\ mode = "preview")
        => /\ PublishCalls = {}
           /\ count_today_posts = today_count
           /\ GenSucceeded => (out.status = "preview" /\ exit_code = 0)

C4_Witness ==
    /\ GenSucceeded
    /\ mode = "preview"
    /\ out.status = "preview"
    /\ Generated.images # <<>>

(* C5: an auto run whose generated package has no image never calls the     *)
(* publish script, appends nothing to the log and exits non-zero.           *)
C5_ZeroImagesNoPublish ==
    (GenSucceeded /\ mode = "auto" /\ Generated.images = <<>>)
        => /\ PublishCalls = {}
           /\ count_today_posts = today_count
           /\ exit_code # 0

C5_Witness ==
    /\ GenSucceeded
    /\ mode = "auto"
    /\ Generated.images = <<>>
    /\ out.status = "error"

(* C6: an auto run that fails after a successful generation (no image, or   *)
(* publish rejected) still reports the generated title and body.            *)
C6_FailureKeepsContent ==
    (GenSucceeded /\ mode = "auto" /\ out.status \in {"error", "publish_failed"})
        => /\ out.title = Generated.title
           /\ out.content = Generated.content

(* C7: every line of the per-day log records a publish that succeeded.      *)
C7_LogOnlySuccess ==
    \A lines \in {published.earlier, published.today} :
        \A i \in 1..Len(lines) : lines[i].success

(* C8: with dedup enabled, a topic for which a note was published is never  *)
(* selected again by a later run.                                           *)
C8_NoRepublish ==
    (Running /\ selected /\ config.skip_published_topics)
        => topic \notin publishedFor

(* C9: the topic the selector returns is not in the published set it was    *)
(* given.                                                                   *)
C9_ReturnsUnpublished ==
    (sel_result # <<>> /\ sel_result[1] # <<>>)
        => sel_result[1][1] \notin sel_published

(* C10: the selector returns the first weighted keyword of length >= 2 not  *)
(* published; failing that the first note title not published, cut to 20    *)
(* characters; failing that the first unweighted keyword of length >= 2 not *)
(* published; and none exactly when no tier has a candidate.                *)
Least(S) == CHOOSE x \in S : \A y \in S : x <= y

EligibleWords(kws, pub) ==
    {i \in 1..Len(kws) : Len(kws[i]) >= MinWordLen /\ kws[i] \notin pub}

EligibleNotes(notes, pub) == {i \in 1..Len(notes) : notes[i] \notin pub}

PriorityChoice(data, pub) ==
    LET w == EligibleWords(data.weighted, pub)
        n == EligibleNotes(data.notes, pub)
        k == EligibleWords(data.keywords, pub)
    IN  IF w # {} THEN <<data.weighted[Least(w)]>>
        ELSE IF n # {}
             THEN <<SubSeq(data.notes[Least(n)], 1,
                           IF Len(data.notes[Least(n)]) < TitleCut
                           THEN Len(data.notes[Least(n)]) ELSE TitleCut)>>
        ELSE IF k # {} THEN <<data.keywords[Least(k)]>>
        ELSE <<>>

C10_SelectorPriority ==
    sel_result # <<>> => sel_result[1] = PriorityChoice(sel_data, sel_published)

C10_Witness ==
    /\ sel_result = <<(<<CutTitle>>)>>
    /\ sel_data.weighted # <<>>
    /\ sel_data.keywords # <<>>
    /\ EligibleWords(sel_data.keywords, sel_published) # {}

-----------------------------------------------------------------------------
(* Properties of the run: login gate, snapshot choice, failures, ordering   *)

CallsOf(script) == {i \in 1..Len(calls) : calls[i].script = script}

(* The run has chosen its topic and not yet generated *)
TopicChosen == pc = "generate"

(* Every title of every line of every per-day log file *)
AllLoggedTitles ==
    {published.earlier[i].title : i \in 1..Len(published.earlier)}
    \cup {published.today[i].title : i \in 1..Len(published.today)}

LoginChecked == CallsOf("xhs_status.py") # {}

LoginReported == status_result.status # "none"

ReportedLoggedIn ==
    "logged_in" \in DOMAIN status_result /\ status_result.logged_in = TRUE

ScrapeCalled == CallsOf("xhs_trending.py") # {}

ScrapeReportedSuccess ==
    /\ trending_result.status = "success"
    /\ "output_file" \in DOMAIN trending_result

ScrapeReportedFailure ==
    trending_result.status \notin {"none", "success"}

NewestSaved == IF trending = <<>> THEN 0 ELSE Len(trending)

GenerationCalled == CallsOf("xhs_generate_content.py") # {}

C14_GenerationFailureFatal ==
    (GenerationCalled /\ gen_result.status # "success")
        => /\ pc = "done"
           /\ exit_code # 0
           /\ PublishCalls = {}
           /\ count_today_posts = today_count

C14_Witness ==
    /\ pc = "done"
    /\ GenerationCalled
    /\ gen_result.status = "error"
    /\ out.status = "error"
    /\ mode = "preview"

(* C15: a run that ends with a non-zero exit has printed a final status     *)
(* record with an outcome kind, and a run that ends after a call that timed *)
(* out or failed, or in auth_required, error or publish_failed, ends with a *)
(* non-zero exit.                                                           *)
FailureKinds == {"auth_required", "error", "publish_failed"}

C15_FailuresStructured ==
    pc = "done"
        => /\ exit_code # 0 => out.status \in FailureKinds
           /\ out.status \in FailureKinds => exit_code # 0

StageRank(script) ==
    CASE script = "xhs_status.py" -> 1
      [] script = "xhs_trending.py" -> 2
      [] script = "xhs_generate_content.py" -> 3
      [] script = "xhs_publish.py" -> 4

C17_StageOrder ==
    /\ \A i, j \in 1..Len(calls) :
          i < j => StageRank(calls[i].script) < StageRank(calls[j].script)
    /\ calls # <<>> => calls[1].script = "xhs_status.py"

C17_Witness ==
    /\ pc = "done"
    /\ Len(calls) = 3
    /\ calls[2].script = "xhs_trending.py"
    /\ calls[3].script = "xhs_generate_content.py"

(* C18: when the selector yielded no topic, or there was no snapshot, the   *)
(* topic is the category of the run, or the generic topic when the category *)
(* is the catch-all; the run goes on to the generation call with it.        *)
C18_FallbackTopic ==
    /\ (TopicChosen /\ ~selected)
           => topic = IF category = CatchAll THEN GenericTopic ELSE category
    /\ \A i \in CallsOf("xhs_generate_content.py") :
           /\ calls[i].args.topic = topic
           /\ topic # ""

C18_Witness ==
    /\ pc = "done"
    /\ ~selected
    /\ trending_file = 1
    /\ category = "tech"
    /\ topic = "tech"
    /\ GenerationCalled

-----------------------------------------------------------------------------
(* Properties of the Recovery Parser *)

Parsed == parse_result # <<>>

(* C19: for a reply that is a fenced block holding a JSON object, the       *)
(* parser returns that object.                                              *)
C19_FencedObjectReturned ==
    (Parsed /\ llm_shape = "fenced")
        => /\ parse_result[1].ok
           /\ parse_result[1].val = llm_object

C19_Witness ==
    /\ Parsed
    /\ llm_shape = "fenced"
    /\ parse_result[1].ok
    /\ parse_result[1].val = JObj(<< <<"a", JStr(":}")>>, <<"b", JStr(Fence)>> >>)
    /\ \E n \in 1..Len(llm_text) : At(llm_text, n) = " "

(* C20: for a reply that is prose around one JSON object, the parser        *)
(* returns that object.                                                     *)
C20_ProseObjectReturned ==
    (Parsed /\ llm_shape = "prose")
        => /\ parse_result[1].ok
           /\ parse_result[1].val = llm_object

------------------------------------------------------------------------------
(* The specification of the validation of the decoded record as a function  *)

(* a text of n characters, no two neighbours alike *)
RECURSIVE TextOf(_)
TextOf(n) ==
    IF n >= 10 THEN "0123456789" \o TextOf(n - 10)
    ELSE SubSeq("0123456789", 1, n)

(* a list of n different entries *)
ListOf(n) == [i \in 1..n |-> i]

(* lengths on both sides of a limit *)
Around(limit) ==
    {n \in (limit - MaxOver)..(limit + MaxOver) : n >= 0}

(* a field the reply lacks, or one of the given values *)
Optional(S) == {<<>>} \cup {<<x>> : x \in S}

(* image_count = max(1, min(9, args.image_count)) *)
ImageCounts == {1, 2, MaxNoteImages}

InitTrunc ==
    /\ config = [mode |-> "preview", category |-> CatchAll,
                 skip_published_topics |-> TRUE, max_daily_posts |-> 1]
    /\ DiskEmpty
    /\ RunIdle
    /\ SelIdle
    /\ ParseIdle
    /\ GenIdle
    /\ KwIdle
    /\ MoreIdle
    /\ cw_image_count \in ImageCounts
    /\ cw_decoded \in
          [title   : Optional({TextOf(n) : n \in Around(MaxTitleLen)}),
           content : Optional({TextOf(n) : n \in Around(MaxContentLen)}),
           topics  : Optional({ListOf(n) : n \in {0} \cup Around(MaxTopics)}),
           image_prompts :
               Optional({ListOf(n) : n \in {0} \cup Around(cw_image_count)})]
    /\ cw_result = <<>>

(* lines 224-229 applied to the decoded record *)
ValidateCall ==
    /\ cw_result = <<>>
    /\ cw_result' = <<validate_copywriting(cw_decoded, cw_image_count)>>
    /\ UNCHANGED <<diskVars, runVars, selVars, parseVars, moreVars,
                   genVars, kwVars,
                   cw_decoded,
                   cw_image_count>>

NextTrunc == ValidateCall

SpecTrunc == InitTrunc /\ [][NextTrunc]_vars

------------------------------------------------------------------------------
(* xhs_generate_content.py as a process: main() from the copywriting       *)
(* request to the final line, with generate_images one request at a time   *)

(* dict.get(key) on the decoded object: <<>> when the key is absent *)
RECURSIVE Lookup(_, _, _)
Lookup(kvs, key, n) ==
    IF n = 0 THEN <<>>
    ELSE IF kvs[n][1] = key THEN <<kvs[n][2]>>
    ELSE Lookup(kvs, key, n - 1)

(* the Python value of a decoded string or list of strings *)
PyValue(x) ==
    IF x.t = "arr" THEN [n \in 1..Len(x.v) |-> x.v[n].v] ELSE x.v

Field(obj, key) ==
    LET found == Lookup(obj.v, key, Len(obj.v))
    IN  IF found = <<>> THEN <<>> ELSE <<PyValue(found[1])>>

(* a parser that answers a reply it cannot decode with a stock record *)
parse_reply_default(content) ==
    IF extract_json(content).ok THEN extract_json(content)
    ELSE Returned(JObj(<< <<"title", JStr("ai")>>, <<"content", JStr("c")>>,
                          <<"image_prompts", JArr(<<JStr("p1")>>)>> >>))

(* generate_copywriting, line 221: result = extract_json(content) *)
parse_reply(content) == extract_json(content)

(* generate_copywriting, lines 221-231: what becomes of the result r of     *)
(* extract_json, the record returned or the exception raised                *)
validated(r, image_count) ==
    IF ~r.ok THEN [raised |-> "ValueError"]
    ELSE IF r.val.t # "obj" THEN [raised |-> "AttributeError"]
    ELSE [raised |-> "",
          record |-> validate_copywriting(
              [title         |-> Field(r.val, "title"),
               content       |-> Field(r.val, "content"),
               topics        |-> Field(r.val, "topics"),
               image_prompts |-> Field(r.val, "image_prompts")],
              image_count)]

(* generate_copywriting, lines 213-231, on the gateway's answer *)
generate_copywriting(response, image_count) ==
    IF response.status # 200 THEN [raised |-> "RuntimeError"]
    ELSE validated(parse_reply(response.content), image_count)

(* main(), lines 516-522: the handler of every exception of the try block *)
GenFail(error) ==
    /\ gen_out' = [status |-> "error", error |-> error, exit |-> 1]
    /\ gen_pc' = "done"

(* main(), lines 465-470: after generate_copywriting came back with c *)
Reported(c) ==
    IF c.raised # ""
    THEN GenFail(c.raised) /\ UNCHANGED copywriting
    ELSE IF c.record.title = <<>>
    THEN GenFail("KeyError") /\ UNCHANGED copywriting
    ELSE /\ copywriting' = <<c.record>>
         /\ gen_pc' = "images"
         /\ UNCHANGED gen_out

(* main(), lines 462-470: step 1, up to the line that reports the title *)
Copywriting ==
    /\ gen_pc = "start"
    /\ Reported(generate_copywriting(gw_response, arg_image_count))
    /\ UNCHANGED <<diskVars, runVars, selVars, parseVars, moreVars,
                   truncVars, kwVars,
                   gw_response, arg_image_count, preview_only, image_env,
                   img_i, attempt, gen_image_paths, image_call, effects,
                   package_json>>

Prompts == copywriting[1].image_prompts[1]

(* generate_images, lines 238-259: the call, up to the first request *)
StartImages ==
    /\ gen_pc = "images"
    /\ IF ~image_env
       THEN /\ image_call' = "raised"
            /\ GenFail("RuntimeError")
            /\ UNCHANGED <<img_i, attempt, gen_image_paths>>
       ELSE /\ gen_image_paths' = <<>>
            /\ img_i' = 0
            /\ attempt' = 0
            /\ image_call' = IF Prompts = <<>> THEN "returned" ELSE "running"
            /\ gen_pc' = IF Prompts = <<>> THEN "package" ELSE "request"
            /\ UNCHANGED gen_out
    /\ UNCHANGED <<diskVars, runVars, selVars, parseVars, moreVars,
                   truncVars, kwVars,
                   gw_response, arg_image_count, preview_only, image_env,
                   copywriting, effects, package_json>>

(* What one attempt can come to: an image decoded or downloaded and saved,  *)
(* a status other than 200, an answer without image data, an exception     *)
(* raised by the request, the decoding or the saving                       *)
Outcomes == {"image", "http_error", "no_image", "exception"}

(* the prompt given up one attempt late *)
LastAttempt_late(a) == a >= max_retries + 1

(* attempt < max_retries is false *)
LastAttempt(a) == a >= max_retries

(* the path indexed from 0 *)
output_path_zero_based(i) == "image_" \o ToString(i) \o ".png"

(* line 312: output_dir / f"image_{i + 1}.png" *)
output_path(i) == "image_" \o ToString(i + 1) \o ".png"

(* the retry loop left only when the attempts are used up *)
PromptOver_ignores_save(outcome, a) == LastAttempt(a)

(* the retry loop is left: break after a saved image, break or the end of   *)
(* range(max_retries + 1) on the last attempt                               *)
PromptOver(outcome, a) == outcome = "image" \/ LastAttempt(a)

Request(i, a, outcome) == [t |-> "request", i |-> i, n |-> a, outcome |-> outcome]
Saved(i)    == [t |-> "saved", i |-> i, n |-> 0, outcome |-> ""]
Sleep(i, n) == [t |-> "sleep", i |-> i, n |-> n, outcome |-> ""]

(* time.sleep(3) after every attempt that saved nothing *)
Backoff_after_last(i, a, outcome) ==
    IF outcome # "image" THEN <<Sleep(i, 3)>> ELSE <<>>

(* lines 303-305, 368, 380-381: time.sleep(3) before continue *)
Backoff(i, a, outcome) ==
    IF ~PromptOver(outcome, a) THEN <<Sleep(i, 3)>> ELSE <<>>

(* the batch given up at the first prompt without an image *)
BatchOver_on_failure(i, count, outcome) == i >= count - 1 \/ outcome # "image"

(* the for loop over the prompts has no prompt left *)
BatchOver(i, count, outcome) == i >= count - 1

(* lines 388-389: time.sleep(2) unless this was the last prompt *)
Pause(i, count) ==
    IF i < count - 1 THEN <<Sleep(i, 2)>> ELSE <<>>

(* generate_images, lines 284-389: one pass of the retry loop for prompt    *)
(* img_i, with what follows it up to the next request or the return         *)
Attempt(outcome) ==
    /\ gen_pc = "request"
    /\ LET over == PromptOver(outcome, attempt)
           last == BatchOver(img_i, Len(Prompts), outcome)
       IN  /\ effects' = effects
                 \o <<Request(img_i, attempt, outcome)>>
                 \o (IF outcome = "image" THEN <<Saved(img_i)>> ELSE <<>>)
                 \o Backoff(img_i, attempt, outcome)
                 \o (IF over THEN Pause(img_i, Len(Prompts)) ELSE <<>>)
           /\ gen_image_paths' =
                 IF outcome = "image"
                 THEN Append(gen_image_paths, output_path(img_i))
                 ELSE gen_image_paths
           /\ attempt' = IF over THEN 0 ELSE attempt + 1
           /\ img_i' = IF over /\ ~last THEN img_i + 1 ELSE img_i
           /\ image_call' = IF over /\ last THEN "returned" ELSE "running"
           /\ gen_pc' = IF over /\ last THEN "package" ELSE "request"
    /\ UNCHANGED <<diskVars, runVars, selVars, parseVars, moreVars,
                   truncVars, kwVars,
                   gw_response, arg_image_count, preview_only, image_env,
                   copywriting, package_json, gen_out>>

(* main(), lines 483-513: step 3, the package and the result line *)
SavePackage ==
    /\ gen_pc = "package"
    /\ IF copywriting[1].content = <<>>
       THEN GenFail("KeyError") /\ UNCHANGED package_json
       ELSE /\ package_json' =
                 IF preview_only THEN package_json
                 ELSE <<[title   |-> copywriting[1].title[1],
                         content |-> copywriting[1].content[1],
                         topics  |-> copywriting[1].topics[1],
                         image_prompts |-> Prompts,
                         images  |-> gen_image_paths]>>
            /\ gen_out' = [status |-> "success", error |-> "", exit |-> 0]
            /\ gen_pc' = "done"
    /\ UNCHANGED <<diskVars, runVars, selVars, parseVars, moreVars,
                   truncVars, kwVars,
                   gw_response, arg_image_count, preview_only, image_env,
                   copywriting, img_i, attempt, gen_image_paths, image_call,
                   effects>>

(* the text of a list of n prompts *)
RECURSIVE PromptList(_)
PromptList(n) ==
    IF n = 0 THEN ""
    ELSE (IF n = 1 THEN "" ELSE PromptList(n - 1) \o ",")
         \o "\"p" \o ToString(n) \o "\""

(* The replies of the language model: the record asked for with n prompts,  *)
(* a record without title, a record without body, a refusal in plain text,  *)
(* a record cut off in the middle                                           *)
GoodReply(n) ==
    "{\"title\":\"ai\",\"content\":\"c\",\"topics\":[\"x\"],\"image_prompts\":["
        \o PromptList(n) \o "]}"

GenReplies ==
    {GoodReply(n) : n \in {0, 1, MaxPrompts + 1}}
    \cup {"{\"content\":\"c\",\"image_prompts\":[\"p1\"]}",
          "{\"title\":\"ai\",\"image_prompts\":[\"p1\"]}",
          "Sorry, I cannot help with that.",
          "{\"title\":\"ai\",\"content\":\"c"}

GwResponses ==
    {[status |-> 500, content |-> ""]}
    \cup {[status |-> 200, content |-> c] : c \in GenReplies}

InitGen ==
    /\ config = [mode |-> "preview", category |-> CatchAll,
                 skip_published_topics |-> TRUE, max_daily_posts |-> 1]
    /\ DiskEmpty
    /\ RunIdle
    /\ SelIdle
    /\ ParseIdle
    /\ TruncIdle
    /\ KwIdle
    /\ MoreIdle
    /\ gen_pc = "start"
    /\ gw_response \in GwResponses
    /\ arg_image_count \in 1..MaxPrompts
    /\ preview_only \in BOOLEAN
    /\ image_env \in BOOLEAN
    /\ copywriting = <<>>
    /\ img_i = 0
    /\ attempt = 0
    /\ gen_image_paths = <<>>
    /\ image_call = "none"
    /\ effects = <<>>
    /\ package_json = <<>>
    /\ gen_out = [status |-> "none", error |-> "", exit |-> 0]

NextGen ==
    \/ Copywriting
    \/ StartImages
    \/ \E outcome \in Outcomes : Attempt(outcome)
    \/ SavePackage

SpecGen == InitGen /\ [][NextGen]_vars

(* The requests carry timeouts (180 s, 60 s) and the sleeps are finite: an  *)
(* attempt that can be made is made                                         *)
SpecGenFair == SpecGen /\ WF_vars(\E outcome \in Outcomes : Attempt(outcome))

------------------------------------------------------------------------------
(* xhs_trending.py: analyze_topics as a function.  A title is given as the  *)
(* sequence of words jieba.cut segments it into.                            *)

Stopwords == {"de", "le"}        \* the set of line 313, here its first two words

(* w.strip(); len(w) >= 2 and w not in stopwords *)
Counted(w) == Len(Strip(w)) >= MinWordLen /\ Strip(w) \notin Stopwords

(* Counter: counter[key] += n, a new key placed last *)
CounterAdd(kvs, key, n) ==
    IF \E k \in 1..Len(kvs) : kvs[k][1] = key
    THEN [k \in 1..Len(kvs) |->
             IF kvs[k][1] = key THEN <<key, kvs[k][2] + n>> ELSE kvs[k]]
    ELSE Append(kvs, <<key, n>>)

(* for w in words: ... counter[w] += n *)
RECURSIVE CountWords(_, _, _)
CountWords(kvs, words, n) ==
    IF words = <<>> THEN kvs
    ELSE CountWords(IF Counted(Head(words))
                    THEN CounterAdd(kvs, Strip(Head(words)), n)
                    ELSE kvs,
                    Tail(words), n)

(* jieba.cut of the titles joined with a blank *)
RECURSIVE AllTitles(_)
AllTitles(notes) ==
    IF notes = <<>> THEN <<>>
    ELSE IF Len(notes) = 1 THEN notes[1].title
    ELSE notes[1].title \o <<" ">> \o AllTitles(Tail(notes))

(* a note without likes weighs nothing *)
Weight_plain(note) == note.likes

(* line 330: likes = note.get("likes", 0) or 1 *)
Weight(note) == IF note.likes = 0 THEN 1 ELSE note.likes

(* lines 327-335: the loop over the notes *)
RECURSIVE WeightNotes(_, _)
WeightNotes(kvs, notes) ==
    IF notes = <<>> THEN kvs
    ELSE WeightNotes(CountWords(kvs, Head(notes).title, Weight(Head(notes))),
                     Tail(notes))

(* Counter.most_common(n): by falling count, equal counts in the order of   *)
(* their first appearance                                                  *)
RECURSIVE InsertByCount(_, _)
InsertByCount(sorted, kv) ==
    IF sorted = <<>> THEN <<kv>>
    ELSE IF Head(sorted)[2] >= kv[2]
         THEN <<Head(sorted)>> \o InsertByCount(Tail(sorted), kv)
    ELSE <<kv>> \o sorted

RECURSIVE SortByCount(_, _)
SortByCount(sorted, kvs) ==
    IF kvs = <<>> THEN sorted
    ELSE SortByCount(InsertByCount(sorted, Head(kvs)), Tail(kvs))

most_common(kvs, n) == Prefix(SortByCount(<<>>, kvs), n)

RECURSIVE SumLikes(_)
SumLikes(notes) ==
    IF notes = <<>> THEN 0 ELSE Head(notes).likes + SumLikes(Tail(notes))

(* avg_likes is the quotient of the two numbers kept here *)
analyze_topics(notes) ==
    [top_keywords |-> most_common(CountWords(<<>>, AllTitles(notes), 1), 20),
     top_weighted_keywords |-> most_common(WeightNotes(<<>>, notes), 20),
     total_notes |-> Len(notes),
     avg_likes |-> <<SumLikes(notes), IF Len(notes) > 1 THEN Len(notes) ELSE 1>>]

(* Titles as segmented: one keyword, a keyword twice, two keywords around a *)
(* stopword, a one-letter word before a keyword, no title                   *)
KwTitles == {<<"ai">>, <<"ai", " ", "ai">>, <<"tea", "de", "ai">>,
             <<"x", "tea">>, <<>>}

KwNotes == [title : KwTitles, likes : 0..MaxLikes]

InitKw ==
    /\ config = [mode |-> "preview", category |-> CatchAll,
                 skip_published_topics |-> TRUE, max_daily_posts |-> 1]
    /\ DiskEmpty
    /\ RunIdle
    /\ SelIdle
    /\ ParseIdle
    /\ TruncIdle
    /\ GenIdle
    /\ MoreIdle
    /\ kw_notes \in SeqsUpTo(KwNotes, MaxNotes)
    /\ kw_result = <<>>

(* analysis = analyze_topics(notes) *)
AnalyzeCall ==
    /\ kw_result = <<>>
    /\ kw_result' = <<analyze_topics(kw_notes)>>
    /\ UNCHANGED <<diskVars, runVars, selVars, parseVars, moreVars,
                   truncVars, genVars,
                   kw_notes>>

NextKw == AnalyzeCall

SpecKw == InitKw /\ [][NextKw]_vars

------------------------------------------------------------------------------

Repaired == repair_result # <<>>

(* C21: for a JSON text whose string values hold quotes written without the *)
(* backslash, each followed by ordinary text, decoding the repaired text    *)
(* yields the intended object, the quotes being part of the values.         *)
C21_RepairRoundTrip ==
    (Repaired /\ llm_shape = "unescaped")
        => json_loads(repair_result[1]) = <<llm_object>>

C21_Witness ==
    /\ Repaired
    /\ llm_shape = "unescaped"
    /\ json_loads(llm_text) = <<>>
    /\ llm_object = JObj(<< <<"a", JStr("q\"r")>>, <<"b", JStr("a \"b\" c")>> >>)
    /\ json_loads(repair_result[1]) = <<llm_object>>
    /\ \E n \in 1..Len(llm_text) : At(llm_text, n) = "\n"

(* C22: when the parser fails, the error carries the length of the text it  *)
(* was given.                                                               *)
C22_ErrorCarriesInputLength ==
    (Parsed /\ ~parse_result[1].ok)
        => parse_result[1].length = Len(llm_text)

Validated == cw_result # <<>>

IsPrefixOf(short, long) ==
    /\ Len(short) <= Len(long)
    /\ short = SubSeq(long, 1, Len(short))

(* a field of the returned record is within its limit and is the beginning  *)
(* of the decoded field (of the empty list, for a list the reply lacks)     *)
FieldCut(field, limit, empty) ==
    LET decoded  == cw_decoded[field]
        returned == cw_result[1][field]
    IN  IF decoded = <<>>
        THEN returned = empty
        ELSE /\ returned # <<>>
             /\ Len(returned[1]) <= limit
             /\ IsPrefixOf(returned[1], decoded[1])
             /\ Len(decoded[1]) <= limit => returned = decoded

(* C23: the record the validation returns has a title of at most 50         *)
(* characters, a body of at most 1000, at most 10 topics and at most        *)
(* image_count prompts, each the beginning of the decoded field; a record   *)
(* already within the limits comes back unchanged, so validating twice      *)
(* equals validating once.                                                  *)
C23_Truncation ==
    Validated =>
        /\ FieldCut("title", MaxTitleLen, <<>>)
        /\ FieldCut("content", MaxContentLen, <<>>)
        /\ FieldCut("topics", MaxTopics, << <<>> >>)
        /\ FieldCut("image_prompts", cw_image_count, << <<>> >>)
        /\ validate_copywriting(cw_result[1], cw_image_count) = cw_result[1]

C23_Witness ==
    /\ Validated
    /\ cw_image_count = 2
    /\ cw_decoded.title = <<TextOf(MaxTitleLen + 1)>>
    /\ cw_decoded.content = <<TextOf(MaxContentLen + 1)>>
    /\ cw_decoded.topics = <<ListOf(MaxTopics + 1)>>
    /\ cw_decoded.image_prompts = <<ListOf(3)>>
    /\ cw_result[1].title = <<TextOf(MaxTitleLen)>>
    /\ cw_result[1].content = <<TextOf(MaxContentLen)>>
    /\ cw_result[1].topics = <<ListOf(MaxTopics)>>
    /\ cw_result[1].image_prompts = <<ListOf(2)>>

(* the positions in effects of the requests sent for prompt i *)
RequestsFor(i) ==
    {n \in 1..Len(effects) : effects[n].t = "request" /\ effects[n].i = i}

AtPrompt(i) == gen_pc = "request" /\ img_i = i

(* C24: for every prompt at most 3 generation requests are sent, whatever   *)
(* the attempts come to, and the retry loop of every prompt is left.        *)
C24_BoundedRetries ==
    /\ [](\A i \in 0..MaxPrompts : Cardinality(RequestsFor(i)) <= 3)
    /\ \A i \in 0..MaxPrompts : AtPrompt(i) ~> ~AtPrompt(i)

C24_Witness ==
    /\ AtPrompt(1)
    /\ Len(effects) >= 5
    /\ SubSeq(effects, 1, 5)
         = <<Request(0, 0, "http_error"), Sleep(0, 3),
             Request(0, 1, "no_image"), Sleep(0, 3),
             Request(0, 2, "exception")>>

(* the prompts whose retry loop has been entered *)
Entered ==
    IF image_call = "returned" THEN 0..(Len(Prompts) - 1)
    ELSE IF image_call = "running" THEN 0..img_i
    ELSE {}

PathOf(j) == "image_" \o ToString(j + 1) \o ".png"

(* C25: the saved paths are image_{i+1} for prompts i already entered, in   *)
(* the order of the prompts and without repetition, so there are never more *)
(* paths than prompts, in the list and in the package.                      *)
C25_PathsFollowPrompts ==
    /\ \A n \in 1..Len(gen_image_paths) :
          \E j \in Entered :
             /\ gen_image_paths[n] = PathOf(j)
             /\ \A m \in 1..(n - 1) :
                   \E k \in 0..(j - 1) : gen_image_paths[m] = PathOf(k)
    /\ Len(gen_image_paths) <= Cardinality(Entered)
    /\ package_json # <<>> =>
          Len(package_json[1].images) <= Len(package_json[1].image_prompts)

C25_Witness ==
    /\ package_json # <<>>
    /\ Len(package_json[1].image_prompts) = 2
    /\ package_json[1].images = <<"image_2.png">>

SavedPrompts ==
    LET saves == SelectSeq(effects, LAMBDA e : e.t = "saved")
    IN  [n \in 1..Len(saves) |-> saves[n].i]

C27_SuccessEndsRetries ==
    /\ \A m \in 1..Len(effects) : \A n \in (m + 1)..Len(effects) :
          effects[m].t = "saved" =>
             ~(effects[n].t = "request" /\ effects[n].i = effects[m].i)
    /\ \A m \in 1..Len(gen_image_paths) : \A n \in (m + 1)..Len(gen_image_paths) :
          gen_image_paths[m] # gen_image_paths[n]

C27_Witness ==
    /\ Len(effects) >= 6
    /\ effects[1] = Request(0, 0, "no_image")
    /\ effects[3] = Request(0, 1, "image")
    /\ effects[4] = Saved(0)
    /\ effects[6].t = "request"
    /\ effects[6].i = 1

IsBackoff(e) == e.t = "sleep" /\ e.n = 3
IsPause(e)   == e.t = "sleep" /\ e.n = 2

(* C28: a wait of 3 seconds stands only between two consecutive attempts of *)
(* one prompt, never after its last attempt; a wait of 2 seconds stands     *)
(* exactly once between the last event of a prompt and the first request of *)
(* the next, never after the last prompt and never between two attempts.    *)
C28_Waits ==
    \A n \in 1..Len(effects) :
       /\ IsBackoff(effects[n]) =>
             /\ n > 1
             /\ effects[n - 1].t = "request"
             /\ effects[n - 1].i = effects[n].i
             /\ effects[n - 1].n < max_retries
             /\ IF n = Len(effects) THEN AtPrompt(effects[n].i)
                ELSE effects[n + 1]
                       = [effects[n + 1] EXCEPT
                             !.t = "request", !.i = effects[n].i,
                             !.n = effects[n - 1].n + 1]
       /\ IsPause(effects[n]) =>
             /\ n > 1
             /\ effects[n - 1].t \in {"request", "saved"}
             /\ effects[n - 1].i = effects[n].i
             /\ effects[n].i < Len(Prompts) - 1
             /\ IF n = Len(effects) THEN AtPrompt(effects[n].i + 1)
                ELSE effects[n + 1]
                       = [effects[n + 1] EXCEPT
                             !.t = "request", !.i = effects[n].i + 1, !.n = 0]
       /\ (effects[n].t = "request" /\ n > 1) =>
             IF effects[n].n > 0 THEN IsBackoff(effects[n - 1])
             ELSE IsPause(effects[n - 1])
       /\ (image_call = "returned" /\ n = Len(effects)) =>
             effects[n].t \in {"request", "saved"}

C28_Witness ==
    /\ image_call = "returned"
    /\ effects = <<Request(0, 0, "http_error"), Sleep(0, 3),
                   Request(0, 1, "image"), Saved(0), Sleep(0, 2),
                   Request(1, 0, "exception"), Sleep(1, 3),
                   Request(1, 1, "no_image"), Sleep(1, 3),
                   Request(1, 2, "no_image")>>

ParserFailed ==
    /\ gw_response.status = 200
    /\ ~extract_json(gw_response.content).ok

(* C29: when the parser fails on the reply to the copywriting request, the  *)
(* run ends with the error status and a non-zero exit, no image request was *)
(* sent and no package was written.                                         *)
C29_NoPartialPackage ==
    (gen_pc = "done" /\ ParserFailed) =>
        /\ gen_out.status = "error"
        /\ gen_out.exit = 1
        /\ effects = <<>>
        /\ image_call = "none"
        /\ package_json = <<>>

C29_Witness ==
    /\ gen_pc = "done"
    /\ ParserFailed
    /\ gw_response.content = "{\"title\":\"ai\",\"content\":\"c"
    /\ ~preview_only
    /\ image_env
    /\ gen_out.error = "ValueError"

Analyzed == kw_result # <<>>

(* the likes of every note whose title has the word w, added up *)
RECURSIVE LikesOfNotesWith(_, _)
LikesOfNotesWith(w, notes) ==
    IF notes = <<>> THEN 0
    ELSE (IF w \in SeqRange(Head(notes).title) THEN Head(notes).likes ELSE 0)
         + LikesOfNotesWith(w, Tail(notes))

(* C30 as stated: the weighted score of every keyword of the analysis is    *)
(* the sum of the likes of the notes whose title contains the keyword.      *)
C30_WeightedScoreIsSumOfLikes ==
    Analyzed =>
        \A n \in 1..Len(kw_result[1].top_weighted_keywords) :
           LET kv == kw_result[1].top_weighted_keywords[n]
           IN  kv[2] = LikesOfNotesWith(kv[1], kw_notes)

(* how often the word w stands in the title of the note *)
Occurrences(w, note) ==
    Cardinality({k \in 1..Len(note.title) : Strip(note.title[k]) = w})

(* the likes of the notes, a note without likes taken as 1, once for every  *)
(* time the word w stands in the title                                      *)
RECURSIVE LikesPerOccurrence(_, _)
LikesPerOccurrence(w, notes) ==
    IF notes = <<>> THEN 0
    ELSE (IF Head(notes).likes = 0 THEN 1 ELSE Head(notes).likes)
             * Occurrences(w, Head(notes))
         + LikesPerOccurrence(w, Tail(notes))

(* C30, amended: every word of a title that has two letters or more and is  *)
(* no stopword is a keyword of the analysis, and the weighted score of a    *)
(* keyword is the sum over the notes of the note's likes, 1 for a note      *)
(* without likes, counted once for each time the keyword stands in the      *)
(* note's title.                                                            *)
C30_WeightedScorePerOccurrence ==
    Analyzed =>
        LET scores == kw_result[1].top_weighted_keywords
        IN  /\ \A n \in 1..Len(scores) :
                  /\ scores[n][2] = LikesPerOccurrence(scores[n][1], kw_notes)
                  /\ scores[n][2] > 0
            /\ \A m \in 1..Len(kw_notes) : \A k \in 1..Len(kw_notes[m].title) :
                  (Len(kw_notes[m].title[k]) >= 2
                      /\ kw_notes[m].title[k] \notin {"de", "le"})
                  => \E n \in 1..Len(scores) :
                        scores[n][1] = kw_notes[m].title[k]

C30_Witness ==
    /\ Analyzed
    /\ kw_notes = <<[title |-> <<"ai", " ", "ai">>, likes |-> 2],
                    [title |-> <<"tea", "de", "ai">>, likes |-> 0]>>
    /\ kw_result[1].top_weighted_keywords = << <<"ai", 5>>, <<"tea", 1>> >>

(* C31: the configuration changes only in a step of --set-mode, which       *)
(* changes its mode field only, calls no script and writes nothing else; no *)
(* step of a pipeline run, of --config or of a publish changes it.          *)
C31_ConfigFrame ==
    [][config' # config =>
          /\ pc = "idle"
          /\ pc' = "idle"
          /\ out' = [status |-> "success", config |-> config']
          /\ config' = [config EXCEPT !.mode = config'.mode]
          /\ calls' = <<>>
          /\ UNCHANGED <<published, trending, package_file>>]_vars

C31_Witness ==
    /\ pc = "idle"
    /\ out = [status |-> "success", config |-> config]
    /\ config.mode = "auto"
    /\ ~config.skip_published_topics
    /\ published.today # <<>>

------------------------------------------------------------------------------
(* xhs_generate_content.py, generate_images, lines 308-346: the search for  *)
(* image data in one reply of the image model.  A message is a record      *)
(*   images  : the list message.get("images", [])                          *)
(*   content : message.get("content", ""), a list of parts, a str or null  *)
(* and the result of the search is a record                                 *)
(*   saved  : <<>> or <<bytes>> given to save_image                        *)
(*   raised : an exception left the search                                  *)
(*   trace  : the elements looked at and the requests sent, in order       *)

MaxParts == 2

B64 == "QQ=="

DataUrl == "data:image/png;base64,QQ=="

HttpUrl == "https://h/a.png"

Ev(m, what, k) == [m |-> m, what |-> what, k |-> k]

Found(bytes, trace) == [saved |-> <<bytes>>, raised |-> FALSE, trace |-> trace]

Nothing(trace) == [saved |-> <<>>, raised |-> FALSE, trace |-> trace]

Raised(trace) == [saved |-> <<>>, raised |-> TRUE, trace |-> trace]

Then(ev, r) == [r EXCEPT !.trace = <<ev>> \o r.trace]

(* u.split(",", 1)[1]: the text after the first comma, IndexError when the *)
(* text holds none                                                          *)
AfterComma(u) ==
    IF IndexOf(u, ",", 1) = 0 THEN <<>> ELSE <<From(u, IndexOf(u, ",", 1) + 1)>>

(* lines 314-323, Method 1 *)
RECURSIVE method1(_, _)
method1(images_list, k) ==
    IF k > Len(images_list) THEN Nothing(<<>>)
    ELSE LET img_obj == images_list[k]
             url_str == IF img_obj.dict THEN img_obj.url ELSE ""
         IN  Then(Ev(1, "look", k),
                  IF StartsAt(url_str, 1, "data:")
                  THEN IF AfterComma(url_str) = <<>> THEN Raised(<<>>)
                       ELSE Found(AfterComma(url_str)[1], <<Ev(1, "save", k)>>)
                  ELSE method1(images_list, k + 1))

(* lines 331-340: b64 of one part, <<>> for None, "raise" for IndexError *)
part_b64(part) ==
    IF part.type = "image"
    THEN <<IF part.data # "" THEN part.data ELSE part.b64_json>>
    ELSE IF part.type = "image_url"
    THEN IF StartsAt(part.url, 1, "data:")
         THEN IF AfterComma(part.url) = <<>> THEN <<"raise">>
              ELSE AfterComma(part.url)
         ELSE <<>>
    ELSE IF part.inline_data # "" THEN <<part.inline_data>>
    ELSE <<>>

(* lines 328-344, Method 2 *)
RECURSIVE method2(_, _)
method2(content, k) ==
    IF k > Len(content) THEN Nothing(<<>>)
    ELSE LET part == content[k]
             b64 == IF part.dict THEN part_b64(part) ELSE <<>>
         IN  Then(Ev(2, "look", k),
                  IF b64 = <<"raise">> THEN Raised(<<>>)
                  ELSE IF b64 # <<>> /\ b64 # <<"">>
                  THEN Found(b64[1], <<Ev(2, "save", k)>>)
                  ELSE method2(content, k + 1))

SchemeAt(s, i) ==
    IF StartsAt(s, i, "http://") THEN 7
    ELSE IF StartsAt(s, i, "https://") THEN 8
    ELSE 0

(* the end of the run of [^\s)] that starts at i *)
RECURSIVE RunEnd(_, _, _)
RunEnd(s, i, stop) ==
    IF i > Len(s) \/ At(s, i) \in stop THEN i - 1 ELSE RunEnd(s, i + 1, stop)

(* line 348: the lazy .*? up to the first "](" from which the rest of the  *)
(* pattern matches; "." matches no newline                                  *)
RECURSIVE md_tail(_, _)
md_tail(s, j) ==
    IF j > Len(s) THEN ""
    ELSE LET n == SchemeAt(s, j + 2)
             e == RunEnd(s, j + 2 + n, Whitespace \cup {")"})
         IN  IF /\ StartsAt(s, j, "](")
                /\ n > 0
                /\ e >= j + 2 + n
                /\ At(s, e + 1) = ")"
             THEN SubSeq(s, j + 2, e)
             ELSE IF At(s, j) = "\n" THEN ""
             ELSE md_tail(s, j + 1)

(* re.search(r'!\[.*?\]\((https?://[^\s)]+)\)', content): group 1 of the   *)
(* leftmost match, "" when there is none                                    *)
RECURSIVE md_match(_, _)
md_match(s, i) ==
    IF i > Len(s) THEN ""
    ELSE IF StartsAt(s, i, "![") /\ md_tail(s, i + 2) # ""
    THEN md_tail(s, i + 2)
    ELSE md_match(s, i + 1)

Extensions == {".png", ".jpg", ".jpeg", ".webp", ".gif"}

(* the greedy \S+ gives back characters until an extension follows it *)
RECURSIVE ext_end(_, _, _)
ext_end(s, lo, d) ==
    IF d <= lo THEN 0
    ELSE IF \E x \in Extensions : StartsAt(s, d, x)
    THEN d - 1 + Len(CHOOSE x \in Extensions :
                         /\ StartsAt(s, d, x)
                         /\ (x = ".jpeg" => ~StartsAt(s, d, ".jpg")))
    ELSE ext_end(s, lo, d - 1)

(* re.search(r'(https?://\S+\.(?:png|jpg|jpeg|webp|gif))', content) *)
RECURSIVE url_match(_, _)
url_match(s, i) ==
    IF i > Len(s) THEN ""
    ELSE LET n == SchemeAt(s, i)
             e == RunEnd(s, i + n, Whitespace)
             x == ext_end(s, i + n, e)
         IN  IF n > 0 /\ x > 0 THEN SubSeq(s, i, x)
             ELSE url_match(s, i + 1)

(* lines 348-350: img_url, "" when neither pattern matches *)
img_url(content) ==
    IF md_match(content, 1) # "" THEN md_match(content, 1)
    ELSE url_match(content, 1)

FetchAnswers == {"200", "404", "raise"}

(* lines 346-355, Method 3; fetch is the answer req.get meets *)
method3(content, fetch) ==
    IF img_url(content) = "" THEN Nothing(<<Ev(3, "search", 0)>>)
    ELSE Then(Ev(3, "search", 0),
              Then(Ev(3, "get", 0),
                   IF fetch = "raise" THEN Raised(<<>>)
                   ELSE IF fetch = "200"
                   THEN Found("img_resp.content", <<Ev(3, "save", 0)>>)
                   ELSE Nothing(<<>>)))

After(first, second) == [second EXCEPT !.trace = first.trace \o second.trace]

SecondWanted_always(first) == ~first.raised

(* line 326: if not image_saved *)
SecondWanted(first) == ~first.raised /\ first.saved = <<>>

(* lines 312-355 *)
search_image(message, fetch) ==
    LET first   == method1(message.images, 1)
        content == message.content
    IN  IF ~SecondWanted(first) THEN first
        ELSE IF content.kind = "list"
        THEN After(first, method2(content.parts, 1))
        ELSE IF content.kind = "str" /\ content.text # ""
        THEN After(first, method3(content.text, fetch))
        ELSE first

(* lines 357-375 and the except clause: what the attempt counts as *)
attempt_outcome(r) ==
    IF r.raised THEN "exception"
    ELSE IF r.saved # <<>> THEN "image"
    ELSE "no_image"

ImgObjs ==
    { [dict |-> TRUE, url |-> DataUrl], [dict |-> TRUE, url |-> HttpUrl],
      [dict |-> TRUE, url |-> "data:"], [dict |-> FALSE, url |-> ""] }

Part(type, data, url, inline) ==
    [dict |-> TRUE, type |-> type, data |-> data, b64_json |-> "",
     url |-> url, inline_data |-> inline]

Parts ==
    { Part("text", "", "", ""), Part("image", B64, "", ""),
      Part("image", "", "", ""), Part("image_url", "", DataUrl, ""),
      Part("image_url", "", HttpUrl, ""), Part("", "", "", B64),
      [Part("", "", "", "") EXCEPT !.dict = FALSE] }

ContentTexts ==
    { "", "sorry", "![a](https://h/a)", "see https://h/a.png.", "at http://h/a",
      "![a]\n(https://h/a)" }



Contents ==
    { [kind |-> "list", parts |-> ps, text |-> ""] : ps \in SeqsUpTo(Parts, MaxParts) }
    \cup { [kind |-> "str", parts |-> <<>>, text |-> t] : t \in ContentTexts }
    \cup { [kind |-> "null", parts |-> <<>>, text |-> ""] }

InitExtract ==
    /\ config = [mode |-> "preview", category |-> CatchAll,
                 skip_published_topics |-> TRUE, max_daily_posts |-> 1]
    /\ DiskEmpty
    /\ RunIdle
    /\ SelIdle
    /\ ParseIdle
    /\ TruncIdle
    /\ GenIdle
    /\ KwIdle
    /\ PubIdle
    /\ LogIdle
    /\ ex_message \in [images : SeqsUpTo(ImgObjs, MaxParts), content : Contents]
    /\ ex_result = <<>>

SearchCall(fetch) ==
    /\ ex_result = <<>>
    /\ ex_result' = <<search_image(ex_message, fetch)>>
    /\ UNCHANGED <<diskVars, runVars, selVars, parseVars, truncVars, genVars,
                   kwVars, pubVars, logVars, ex_message>>

NextExtract == \E fetch \in FetchAnswers : SearchCall(fetch)

SpecExtract == InitExtract /\ [][NextExtract]_vars

Searched == ex_result # <<>>

Events(what) ==
    { n \in 1..Len(ex_result[1].trace) : ex_result[1].trace[n].what = what }

Saves == Events("save")

YieldsData(img_obj) == img_obj.dict /\ img_obj.url = DataUrl

(* C32: in one attempt the strategies are tried in order (images array,    *)
(* list of parts, string with an image URL), the first that yields bytes   *)
(* ends the search, the GET of strategy 3 is sent only when the images     *)
(* array yielded nothing and the content is a non-empty string holding a   *)
(* matching URL, and a GET answered without success leaves no image.       *)
C32_StrategiesInOrder ==
    Searched =>
        LET r == ex_result[1]
            t == r.trace
        IN  /\ \A a, b \in 1..Len(t) : a < b => t[a].m <= t[b].m
            /\ \A n \in Saves : n = Len(t) /\ r.saved # <<>>
            /\ r.saved # <<>> => Saves # {}
            /\ Events("get") # {} =>
                  /\ \A k \in 1..Len(ex_message.images) :
                         ~YieldsData(ex_message.images[k])
                  /\ ex_message.content.kind = "str"
                  /\ ex_message.content.text \in
                         {"![a](https://h/a)", "see https://h/a.png."}
                  /\ (t[Len(t)].what = "get" => attempt_outcome(r) # "image")

C32_Witness ==
    /\ Searched
    /\ Len(ex_message.images) = 2
    /\ ex_message.content.text = "see https://h/a.png."
    /\ ex_result[1].trace =
           <<Ev(1, "look", 1), Ev(1, "look", 2), Ev(3, "search", 0), Ev(3, "get", 0)>>
    /\ attempt_outcome(ex_result[1]) = "no_image"

------------------------------------------------------------------------------
(* extract_json and _fix_json on arbitrary text: every text of at most      *)
(* MaxText characters over the characters the two functions tell apart,    *)
(* and some longer replies                                                  *)

MaxText == 4

Alphabet == {"\"", "\\", "\n", ",", ":", "{", "}", "[", "]", "1"}

RECURSIVE Texts(_)
Texts(n) ==
    IF n = 0 THEN {""}
    ELSE Texts(n - 1) \cup {s \o c : s \in Texts(n - 1), c \in Alphabet}

Replies ==
    { "{\"a\": \",}\",}",
      "{x} {\"a\": 1}",
      "see {\"a\": \"}\"} ok",
      "x {\"a\": 1,} y",
      "[1, 2]" }

InitRaw ==
    /\ config = [mode |-> "preview", category |-> CatchAll,
                 skip_published_topics |-> TRUE, max_daily_posts |-> 1]
    /\ DiskEmpty
    /\ RunIdle
    /\ SelIdle
    /\ LaterIdle
    /\ llm_object = JObj(<<>>)
    /\ llm_shape = "raw"
    /\ llm_text \in Texts(MaxText) \cup Replies
    /\ parse_result = <<>>
    /\ repair_result = <<>>

SpecRaw == InitRaw /\ [][NextParse]_vars

(* _fix_json, lines 134-174: the loop over the characters, one record for   *)
(* each turn: the index and the character it stands at, in_string before   *)
(* and after the turn, and what the turn appends to result                  *)
Turn(i, ch, in_string, appended, after) ==
    [i |-> i, ch |-> ch, in_string |-> in_string, out |-> appended,
     after |-> after]

RECURSIVE fix_turns(_, _, _)
fix_turns(s, i, in_string) ==
    IF i > Len(s) THEN <<>>
    ELSE LET ch == At(s, i)
         IN  IF ~in_string
             THEN <<Turn(i, ch, FALSE, ch, ch = "\"")>>
                      \o fix_turns(s, i + 1, ch = "\"")
             ELSE IF ch = "\\"
             THEN <<Turn(i, ch, TRUE, ch \o At(s, i + 1), TRUE)>>
                      \o fix_turns(s, i + 2, TRUE)
             ELSE IF ch = "\n"
             THEN <<Turn(i, ch, TRUE, "\\n", TRUE)>> \o fix_turns(s, i + 1, TRUE)
             ELSE IF ch = "\""
             THEN IF ClosesString(At(s, SkipWs(s, i + 1)))
                  THEN <<Turn(i, ch, TRUE, ch, FALSE)>>
                           \o fix_turns(s, i + 1, FALSE)
                  ELSE <<Turn(i, ch, TRUE, "\\\"", TRUE)>>
                           \o fix_turns(s, i + 1, TRUE)
             ELSE <<Turn(i, ch, TRUE, ch, TRUE)>> \o fix_turns(s, i + 1, TRUE)

RECURSIVE Appended(_, _)
Appended(turns, n) ==
    IF n > Len(turns) THEN "" ELSE turns[n].out \o Appended(turns, n + 1)

Commaless == drop_trailing_commas(llm_text, 1)

Turns == fix_turns(Commaless, 1, FALSE)

(* the first character after index i that is not whitespace, "" when the   *)
(* text ends before one is met                                              *)
NextVisible(s, i) ==
    IF \E j \in (i + 1)..Len(s) : At(s, j) \notin Whitespace
    THEN At(s, CHOOSE j \in (i + 1)..Len(s) :
                   /\ At(s, j) \notin Whitespace
                   /\ \A k \in (i + 1)..(j - 1) : At(s, k) \in Whitespace)
    ELSE ""

(* C33: in the repair pass a quote met inside a string closes it (flag     *)
(* off, quote copied) exactly when the next character that is not          *)
(* whitespace is one of , : } ] or the text ends, and is otherwise escaped *)
(* with the flag left on; a backslash is copied with the character after   *)
(* it; a newline inside a string becomes an escaped newline.               *)
C33_QuoteClassification ==
    Repaired =>
        /\ Appended(Turns, 1) = repair_result[1]
        /\ \A n \in 1..Len(Turns) :
              LET turn == Turns[n]
              IN  /\ n = 1 => ~turn.in_string
                  /\ n > 1 => turn.in_string = Turns[n - 1].after
                  /\ (turn.in_string /\ turn.ch = "\"") =>
                        IF NextVisible(Commaless, turn.i) \in {"", ",", ":", "}", "]"}
                        THEN turn.out = "\"" /\ ~turn.after
                        ELSE turn.out = "\\\"" /\ turn.after
                  /\ (turn.in_string /\ turn.ch = "\\") =>
                        /\ turn.out = SubSeq(Commaless, turn.i,
                                             IF turn.i < Len(Commaless)
                                             THEN turn.i + 1 ELSE turn.i)
                        /\ turn.after
                        /\ (n < Len(Turns) => Turns[n + 1].i = turn.i + 2)
                  /\ (turn.in_string /\ turn.ch = "\n") =>
                        turn.out = "\\n" /\ turn.after

C33_Witness ==
    /\ Repaired
    /\ llm_text = "\"\"1\""
    /\ repair_result[1] = "\"\\\"1\""

(* the text without its trailing commas, those outside the strings that    *)
(* stand, whitespace apart, before a closing brace or bracket               *)
RECURSIVE TrailingCommasOnly(_, _, _)
TrailingCommasOnly(s, i, in_string) ==
    IF i > Len(s) THEN ""
    ELSE LET ch == At(s, i)
         IN  IF in_string
             THEN IF ch = "\\"
                  THEN ch \o At(s, i + 1) \o TrailingCommasOnly(s, i + 2, TRUE)
                  ELSE ch \o TrailingCommasOnly(s, i + 1, ch # "\"")
             ELSE IF ch = "," /\ At(s, SkipWs(s, i + 1)) \in {"}", "]"}
             THEN TrailingCommasOnly(s, i + 1, FALSE)
             ELSE ch \o TrailingCommasOnly(s, i + 1, ch = "\"")

Intended == json_loads(TrailingCommasOnly(llm_text, 1, FALSE))

(* C34: the repair removes a comma only where it trails before a closing   *)
(* brace or bracket of an object or array and leaves the commas inside     *)
(* strings alone: a text that is JSON once its trailing commas are gone    *)
(* decodes, after the repair, to the value it stood for.                   *)
C34_StringContentKept ==
    (Repaired /\ Intended # <<>>) => json_loads(repair_result[1]) = Intended

(* the text extract_json works on after lines 69-81 *)
Unfenced == strip_fence(Strip(llm_text))

Occurs(s, c, a, b) == Cardinality({k \in a..b : At(s, k) = c})

FirstBrace ==
    {i \in 1..Len(Unfenced) :
        /\ At(Unfenced, i) = "{"
        /\ Occurs(Unfenced, "{", 1, i - 1) = 0}

(* the indices at which as many braces were closed as were opened since    *)
(* the first opening brace, whatever stands in strings                      *)
Balanced(i) ==
    {j \in i..Len(Unfenced) :
        Occurs(Unfenced, "{", i, j) = Occurs(Unfenced, "}", i, j)}

FirstBalanced(i) ==
    {j \in Balanced(i) : \A k \in Balanced(i) : j <= k}

Candidates ==
    UNION {{SubSeq(Unfenced, i, j) : j \in FirstBalanced(i)} : i \in FirstBrace}

WholeFails ==
    /\ json_loads(Unfenced) = <<>>
    /\ json_loads(fix_json(Unfenced)) = <<>>

(* C35: when the whole text decodes neither as it is nor repaired, the     *)
(* parser takes the first opening brace and the closing brace at which the *)
(* depth, counted without regard to strings, is back at zero, decodes that *)
(* substring as it is, else repaired, and fails if neither decodes or the  *)
(* depth never comes back to zero; no later opening brace is tried.        *)
C35_BraceFallback ==
    (Parsed /\ WholeFails) =>
        /\ Cardinality(Candidates) <= 1
        /\ \A c \in Candidates :
              IF json_loads(c) # <<>>
              THEN parse_result[1].ok /\ <<parse_result[1].val>> = json_loads(c)
              ELSE IF json_loads(fix_json(c)) # <<>>
              THEN /\ parse_result[1].ok
                   /\ <<parse_result[1].val>> = json_loads(fix_json(c))
              ELSE ~parse_result[1].ok
        /\ Candidates = {} => ~parse_result[1].ok

C35_Witness ==
    /\ Parsed
    /\ llm_text = "{x} {\"a\": 1}"
    /\ Candidates = {"{x}"}
    /\ json_loads("{\"a\": 1}") # <<>>
    /\ ~parse_result[1].ok

(* C40: whenever the parser returns, the value it returns is a JSON        *)
(* object, never an array, a string, a number or null.                     *)
C40_ReturnsObject ==
    (Parsed /\ parse_result[1].ok) => parse_result[1].val.t = "obj"

------------------------------------------------------------------------------
(* xhs_publish.py run on arguments of every kind *)

(* the character c written n times *)
RECURSIVE Rep(_, _)
Rep(c, n) ==
    IF n = 0 THEN ""
    ELSE Rep(c, n \div 2) \o Rep(c, n \div 2) \o (IF n % 2 = 1 THEN c ELSE "")

PubTitles == {"t", Rep("t", MaxTitleLen), Rep("t", MaxTitleLen + 1)}

PubContents == {"c", Rep("c", MaxContentLen), Rep("c", MaxContentLen + 1)}

PubImages ==
    { <<>>, <<"a.png">>, [i \in 1..MaxNoteImages |-> "a.png"],
      [i \in 1..(MaxNoteImages + 1) |-> "a.png"],
      <<MissingImage>>, <<"a.png", UnsupportedImage>> }

PubTopics ==
    { <<>>, [i \in 1..MaxTopics |-> "tag"], [i \in 1..(MaxTopics + 1) |-> "tag"] }

InitPub ==
    /\ config = [mode |-> "preview", category |-> CatchAll,
                 skip_published_topics |-> TRUE, max_daily_posts |-> 1]
    /\ DiskEmpty
    /\ RunIdle
    /\ SelIdle
    /\ ParseIdle
    /\ TruncIdle
    /\ GenIdle
    /\ KwIdle
    /\ ExIdle
    /\ LogIdle
    /\ pub_args \in [title : PubTitles, content : PubContents,
                     images : PubImages, topics : PubTopics, dry_run : BOOLEAN]
    /\ pub_result = <<>>

(* one run of xhs_publish.py main() *)
PublishRun(cookies, res) ==
    /\ pub_result = <<>>
    /\ LET p == publish_main(pub_args, cookies, res)
       IN  /\ AppendLog(p.log)
           /\ pub_result' = <<[cookies |-> cookies, status |-> p.status,
                               exit |-> p.exit, called |-> p.called]>>
    /\ UNCHANGED <<config, trending, package_file, publishedFor, runVars,
                   selVars, parseVars, truncVars, genVars, kwVars, exVars,
                   logVars, pub_args>>

NextPub == \E cookies \in BOOLEAN, res \in PublishOutcomes : PublishRun(cookies, res)

SpecPub == InitPub /\ [][NextPub]_vars

PubRan == pub_result # <<>>

NothingPublished ==
    /\ ~pub_result[1].called
    /\ published = [today |-> <<>>, earlier |-> <<>>]

BadArgs ==
    \/ Len(pub_args.title) > 50
    \/ Len(pub_args.content) > 1000
    \/ pub_args.images = <<>>
    \/ Len(pub_args.images) > 9
    \/ \E i \in 1..Len(pub_args.images) :
           pub_args.images[i] \in {MissingImage, UnsupportedImage}
    \/ Len(pub_args.topics) > 10

(* C36 as stated: whenever the title has more than 50 characters, the body *)
(* more than 1000, the image list is empty, longer than 9 or names a       *)
(* missing or unsupported file, or there are more than 10 topics, the run  *)
(* ends with validation_error and a non-zero exit, without the publish     *)
(* call and without a log entry; a dry run never publishes or logs.        *)
C36_ValidationRejects ==
    PubRan =>
        /\ BadArgs => /\ pub_result[1].status = "validation_error"
                      /\ pub_result[1].exit # 0
                      /\ NothingPublished
        /\ pub_args.dry_run => NothingPublished

(* C36, amended: the same for runs whose login check passed; a run whose   *)
(* login check failed is rejected with auth_required before the arguments  *)
(* are looked at, again without the publish call and without a log entry.  *)
C36_ValidationAfterLogin ==
    PubRan =>
        /\ BadArgs => /\ pub_result[1].status =
                             IF pub_result[1].cookies THEN "validation_error"
                             ELSE "auth_required"
                      /\ pub_result[1].exit # 0
                      /\ NothingPublished
        /\ pub_args.dry_run => NothingPublished

C36_Witness ==
    /\ PubRan
    /\ pub_result[1].cookies
    /\ Len(pub_args.topics) = 11
    /\ Len(pub_args.title) = 50
    /\ Len(pub_args.content) = 1000
    /\ Len(pub_args.images) = 9
    /\ ~pub_args.dry_run
    /\ pub_result[1].status = "validation_error"
    /\ NothingPublished

------------------------------------------------------------------------------
(* Pipeline runs one after the other on one calendar day, the configuration *)
(* left alone: today's log holds what was published earlier that day       *)

LogsUpTo(n) ==
    SeqsUpTo({LogEntry(t, 1, GenTopics, TRUE) : t \in GenTitles}, n)

InitRuns ==
    /\ config \in ConfigDomain
    /\ published \in [today : LogsUpTo(config.max_daily_posts), earlier : {<<>>}]
    /\ trending = <<>>
    /\ package_file = <<>>
    /\ publishedFor = {}
    /\ RunIdle
    /\ SelIdle
    /\ ParseIdle
    /\ LaterIdle

NextRuns ==
    \/ \E m \in {"", "auto", "preview"}, c \in {"", "tech"}, s \in BOOLEAN :
          StartRun(m, c, s)
    \/ \E r \in StatusResults : CheckLogin(r)
    \/ \E r \in TrendingResults, snap \in Snapshots : Scrape(r, snap)
    \/ \E gen \in GenResults : Generate(gen)
    \/ Exit

SpecRuns == InitRuns /\ [][NextRuns]_vars

(* C37: with runs made one at a time on one day under a fixed ceiling, a   *)
(* run gets past the limit check, and so to the publish call, only when    *)
(* today's log held fewer than max_daily_posts entries at its start, the   *)
(* log grows by no more than the publish calls of the run, and the log     *)
(* never holds more entries than the ceiling.                              *)
C37_QuotaOverRuns ==
    /\ Len(published.today) <= config.max_daily_posts
    /\ Running =>
          /\ (calls # <<>> \/ pc # "done") => today_count < config.max_daily_posts
          /\ Len(published.today) <= today_count + Cardinality(PublishCalls)

C37_Witness ==
    /\ pc = "done"
    /\ mode = "auto"
    /\ GenSucceeded
    /\ today_count < config.max_daily_posts
    /\ Len(calls) >= 3
    /\ Len(published.today) <= config.max_daily_posts

------------------------------------------------------------------------------
(* xhs_auto_pipeline.py, get_published_topics on files whose lines are any *)
(* text.  A file is the list f.read_text().splitlines().                   *)

MaxLines == 2

(* lines 64-67 for the lines from index k on: the titles added before a    *)
(* line raises (json.loads on text that is no JSON, .get on a value that   *)
(* is no dict), all of them when none does                                 *)
RECURSIVE titles_until_error(_, _)
titles_until_error(lines, k) ==
    IF k > Len(lines) THEN {}
    ELSE LET entry == json_loads(lines[k])
         IN  IF entry = <<>> \/ entry[1].t # "obj" THEN {}
             ELSE (IF Field(entry[1], "title") \notin {<<>>, <<"">>}
                   THEN {Field(entry[1], "title")[1]} ELSE {})
                  \cup titles_until_error(lines, k + 1)

(* lines 62-69: for f in published_dir.glob("*.jsonl") *)
published_titles(files) ==
    titles_until_error(files.today, 1) \cup titles_until_error(files.earlier, 1)

LogLines ==
    { "{\"title\": \"A\", \"topics\": []}", "{\"title\": \"B\"}", "",
      "{\"title\": \"A\", \"top", "[1]" }

InitLog ==
    /\ config = [mode |-> "preview", category |-> CatchAll,
                 skip_published_topics |-> TRUE, max_daily_posts |-> 1]
    /\ DiskEmpty
    /\ RunIdle
    /\ SelIdle
    /\ ParseIdle
    /\ TruncIdle
    /\ GenIdle
    /\ KwIdle
    /\ ExIdle
    /\ PubIdle
    /\ log_files \in [today : SeqsUpTo(LogLines, MaxLines),
                      earlier : SeqsUpTo(LogLines, MaxLines)]
    /\ log_result = <<>>

ReadLog ==
    /\ log_result = <<>>
    /\ log_result' = <<published_titles(log_files)>>
    /\ UNCHANGED <<diskVars, runVars, selVars, parseVars, truncVars, genVars,
                   kwVars, exVars, pubVars, log_files>>

NextLog == ReadLog

SpecLog == InitLog /\ [][NextLog]_vars

LogRead == log_result # <<>>

(* the titles of the well-formed entries of a file: the lines that decode  *)
(* to an object with a non-empty title                                     *)
WellFormedTitles(lines) ==
    { Field(json_loads(lines[k])[1], "title")[1] :
        k \in { n \in 1..Len(lines) :
                  /\ json_loads(lines[n]) # <<>>
                  /\ json_loads(lines[n])[1].t = "obj"
                  /\ Field(json_loads(lines[n])[1], "title") \notin {<<>>, <<"">>} } }

(* C39: whatever the log files hold, blank and malformed lines included,   *)
(* get_published_topics returns, and what it returns holds the title of    *)
(* every well-formed entry of every file.                                  *)
C39_NoEntryLost ==
    LogRead =>
        /\ WellFormedTitles(log_files.today) \subseteq log_result[1]
        /\ WellFormedTitles(log_files.earlier) \subseteq log_result[1]

====
